---- MODULE Spec2Model ----
(***************************************************************************)
(* Model of the configurable rule-based intent engine of go-bridge-vm      *)
(* (internal/services/enhanced_local_provider.go, internal/models).        *)
(*                                                                         *)
(* Texts are TLA+ strings over ASCII; a character is a string of length 1. *)
(* float64 scores are modelled as exact rationals [n, d] in lowest terms,  *)
(* Go maps as functions, Go slices as sequences.  The order in which Go    *)
(* iterates a map is a nondeterministic choice of the actions.             *)
(***************************************************************************)
EXTENDS Integers, Sequences, FiniteSets, TLC

(***************************************************************************)
(* Characters and the strings / unicode packages                           *)
(***************************************************************************)
LowerLetters == "abcdefghijklmnopqrstuvwxyz"
UpperLetters == "ABCDEFGHIJKLMNOPQRSTUVWXYZ"
DigitChars == "0123456789"

\* s[i] as a one-character string (1-based)
Char(s, i) == SubSeq(s, i, i)

\* the set of characters of a string
CharsOf(s) == {Char(s, i) : i \in 1..Len(s)}

LowerSet == CharsOf(LowerLetters)
UpperSet == CharsOf(UpperLetters)
DigitSet == CharsOf(DigitChars)

\* unicode.IsSpace on ASCII
SpaceSet == {" ", "\t", "\n", "\r"}

\* unicode.IsPunct on ASCII: general category P (the symbols $ + < = > ^ | ~
\* are category S and are not punctuation)
PunctSet == CharsOf("!\"#%&'()*,-./:;?@[\\]_{}")

IsUpper(c) == c \in UpperSet
IsPunct(c) == c \in PunctSet
IsSpace(c) == c \in SpaceSet

\* the lower-case and upper-case forms of the ASCII letters
LowerOf == [c \in UpperSet |->
              Char(LowerLetters, CHOOSE k \in 1..Len(UpperLetters) : Char(UpperLetters, k) = c)]
UpperOf == [c \in LowerSet |->
              Char(UpperLetters, CHOOSE k \in 1..Len(LowerLetters) : Char(LowerLetters, k) = c)]

\* the code points of the ASCII digits and letters
CodePoint ==
    [c \in DigitSet \cup UpperSet \cup LowerSet |->
        IF c \in DigitSet THEN 47 + (CHOOSE k \in 1..Len(DigitChars) : Char(DigitChars, k) = c)
        ELSE IF c \in UpperSet
        THEN 64 + (CHOOSE k \in 1..Len(UpperLetters) : Char(UpperLetters, k) = c)
        ELSE 96 + (CHOOSE k \in 1..Len(LowerLetters) : Char(LowerLetters, k) = c)]

\* unicode.ToLower on one character
ToLowerChar(c) == IF c \in UpperSet THEN LowerOf[c] ELSE c

\* unicode.ToUpper on one character
ToUpperChar(c) == IF c \in LowerSet THEN UpperOf[c] ELSE c

RECURSIVE MapChars(_, _, _)
\* strings.Map: apply f (a function on characters) to every character from i on
MapChars(f, s, i) ==
    IF i > Len(s) THEN "" ELSE f[Char(s, i)] \o MapChars(f, s, i + 1)

\* strings.ToLower
ToLower(s) == MapChars([c \in CharsOf(s) |-> ToLowerChar(c)], s, 1)

\* strings.ToUpper
ToUpper(s) == MapChars([c \in CharsOf(s) |-> ToUpperChar(c)], s, 1)

\* strings.HasPrefix(s[i-1:], sub), i 1-based
HasPrefixAt(s, i, sub) ==
    /\ i + Len(sub) - 1 <= Len(s)
    /\ SubSeq(s, i, i + Len(sub) - 1) = sub

\* strings.Contains
Contains(s, sub) == \E i \in 1..(Len(s) + 1) : HasPrefixAt(s, i, sub)

\* strings.ContainsAny
ContainsAny(s, chars) == \E i \in 1..Len(s) : Char(s, i) \in CharsOf(chars)

RECURSIVE FieldsFrom(_, _, _)
\* strings.Fields: cur is the field being read at position i
FieldsFrom(s, i, cur) ==
    IF i > Len(s)
    THEN IF cur = "" THEN <<>> ELSE <<cur>>
    ELSE IF IsSpace(Char(s, i))
         THEN IF cur = ""
              THEN FieldsFrom(s, i + 1, "")
              ELSE <<cur>> \o FieldsFrom(s, i + 1, "")
         ELSE FieldsFrom(s, i + 1, cur \o Char(s, i))

Fields(s) == FieldsFrom(s, 1, "")

RECURSIVE Join(_, _)
\* strings.Join
Join(elems, sep) ==
    IF Len(elems) = 0 THEN ""
    ELSE IF Len(elems) = 1 THEN elems[1]
    ELSE elems[1] \o sep \o Join(Tail(elems), sep)

\* strings.Trim(s, cutset)
Trim(s, cutset) ==
    LET keep == {i \in 1..Len(s) : Char(s, i) \notin CharsOf(cutset)}
    IN  IF keep = {} THEN ""
        ELSE LET lo == CHOOSE i \in keep : \A j \in keep : i <= j
                 hi == CHOOSE i \in keep : \A j \in keep : i >= j
             IN  SubSeq(s, lo, hi)

\* strings.TrimSpace
TrimSpace(s) ==
    LET keep == {i \in 1..Len(s) : ~IsSpace(Char(s, i))}
    IN  IF keep = {} THEN ""
        ELSE LET lo == CHOOSE i \in keep : \A j \in keep : i <= j
                 hi == CHOOSE i \in keep : \A j \in keep : i >= j
             IN  SubSeq(s, lo, hi)

\* elements of a slice
Range(seq) == {seq[i] : i \in 1..Len(seq)}

\* all orders in which a Go map with key set S can be iterated
Orders(S) ==
    {o \in [1..Cardinality(S) -> S] : \A i, j \in 1..Cardinality(S) : i # j => o[i] # o[j]}

(***************************************************************************)
(* float64 as exact rationals                                              *)
(***************************************************************************)
Abs(x) == IF x < 0 THEN -x ELSE x

RECURSIVE GCD(_, _)
GCD(a, b) == IF b = 0 THEN a ELSE GCD(b, a % b)

\* the rational n/d in lowest terms, d > 0
Rat(n, d) ==
    LET g == GCD(Abs(n), Abs(d))
        sgn == IF d < 0 THEN -1 ELSE 1
    IN  [n |-> sgn * (n \div g), d |-> sgn * (d \div g)]

Zero == [n |-> 0, d |-> 1]
One == [n |-> 1, d |-> 1]
RatAdd(a, b) == Rat(a.n * b.d + b.n * a.d, a.d * b.d)
RatMul(a, b) == Rat(a.n * b.n, a.d * b.d)
RatLess(a, b) == a.n * b.d < b.n * a.d
RatLeq(a, b) == a.n * b.d <= b.n * a.d
\* math.Min
MathMin(a, b) == IF RatLess(b, a) THEN b ELSE a
\* float64(int)
FromInt(k) == [n |-> k, d |-> 1]

(***************************************************************************)
(* The regexp package: regexp.Compile as a recursive-descent parser of the *)
(* pattern string, matching as leftmost-first backtracking.                *)
(* Supported syntax: a leading (?i), ( ) (?: ) | * + ? {m} {m,} {m,n} and   *)
(* their lazy forms, [ ] classes with ranges and negation, . ^ $ and the   *)
(* escapes \d \D \s \S \w \W \t \n \r and backslash-punctuation.           *)
(***************************************************************************)
\* ASCII symbols (general category S), the backquote left out
SymbolSet == CharsOf("$+<=>^|~")
Alphabet == LowerSet \cup UpperSet \cup DigitSet \cup SpaceSet \cup PunctSet \cup SymbolSet
WordSet == LowerSet \cup UpperSet \cup DigitSet \cup {"_"}
ReSpaceSet == {" ", "\t", "\n", "\r"}

\* a node of the parsed expression
ReNode(op, set, args, min, max, idx, greedy) ==
    [op |-> op, set |-> set, args |-> args, min |-> min, max |-> max, idx |-> idx,
     greedy |-> greedy]
ReSet(S) == ReNode("set", S, <<>>, 0, 0, 0, TRUE)
ReCat(args) == ReNode("cat", {}, args, 0, 0, 0, TRUE)
ReAlt(a, b) == ReNode("alt", {}, <<a, b>>, 0, 0, 0, TRUE)
\* idx of a repetition: the offset at which its last iteration began, -1 for none
ReRep(a, min, max, greedy) == ReNode("rep", {}, <<a>>, min, max, -1, greedy)
ReCap(idx, a) == ReNode("cap", {}, <<a>>, 0, 0, idx, TRUE)
ReBol == ReNode("bol", {}, <<>>, 0, 0, 0, TRUE)
ReEol == ReNode("eol", {}, <<>>, 0, 0, 0, TRUE)

\* a character set taken as written, the (?i) flag ignored
NoFoldSet(S, fold) == S

\* case folding of a character set under (?i)
FoldSet(S, fold) ==
    IF fold THEN S \cup {ToLowerChar(c) : c \in S} \cup {ToUpperChar(c) : c \in S} ELSE S

ParseOk(node, pos, ncap) == [ok |-> TRUE, node |-> node, pos |-> pos, ncap |-> ncap]
ParseErr(pos) == [ok |-> FALSE, node |-> ReCat(<<>>), pos |-> pos, ncap |-> 0]

RECURSIVE ParseNat(_, _, _)
\* the decimal number starting at i: [val, pos], pos = i when there is no digit
ParseNat(p, i, acc) ==
    IF i <= Len(p) /\ Char(p, i) \in DigitSet
    THEN ParseNat(p, i + 1,
                  acc * 10 + (CodePoint[Char(p, i)] - 48))
    ELSE [val |-> acc, pos |-> i]

\* the outcome of reading a repetition operator: max = -1 is unbounded
Quant(ok, min, max, pos) == [ok |-> ok, min |-> min, max |-> max, pos |-> pos]

\* a repeat {m}, {m,} or {m,n} starting at i
ParseRepeat(p, i) ==
    LET bad == Quant(FALSE, 0, 0, i)
        Upper(m, n) ==
            IF n.pos = m.pos + 1 \/ n.pos > Len(p) \/ Char(p, n.pos) # "}" THEN bad
            ELSE Quant(TRUE, m.val, n.val, n.pos + 1)
        Lower(m) ==
            IF m.pos = i + 1 \/ m.pos > Len(p) THEN bad
            ELSE IF Char(p, m.pos) = "}" THEN Quant(TRUE, m.val, m.val, m.pos + 1)
            ELSE IF Char(p, m.pos) # "," \/ m.pos + 1 > Len(p) THEN bad
            ELSE IF Char(p, m.pos + 1) = "}" THEN Quant(TRUE, m.val, -1, m.pos + 2)
            ELSE Upper(m, ParseNat(p, m.pos + 1, 0))
    IN  IF i <= Len(p) /\ Char(p, i) = "{" THEN Lower(ParseNat(p, i + 1, 0)) ELSE bad

\* the repetition operator at j, if any: * + ? or a repeat
ParseQuant(p, j) ==
    IF j > Len(p) THEN Quant(FALSE, 0, 0, j)
    ELSE IF Char(p, j) = "*" THEN Quant(TRUE, 0, -1, j + 1)
    ELSE IF Char(p, j) = "+" THEN Quant(TRUE, 1, -1, j + 1)
    ELSE IF Char(p, j) = "?" THEN Quant(TRUE, 0, 1, j + 1)
    ELSE ParseRepeat(p, j)

\* the class of an escape letter, {} when the letter is not a class escape
EscapeClass(c) ==
    CASE c = "d" -> DigitSet
      [] c = "D" -> Alphabet \ DigitSet
      [] c = "s" -> ReSpaceSet
      [] c = "S" -> Alphabet \ ReSpaceSet
      [] c = "w" -> WordSet
      [] c = "W" -> Alphabet \ WordSet
      [] c = "t" -> {"\t"}
      [] c = "n" -> {"\n"}
      [] c = "r" -> {"\r"}
      [] OTHER -> IF c \in PunctSet \cup SymbolSet THEN {c} ELSE {}

\* the digits and letters of a class range lo-hi, {} when lo or hi is none of
\* them or the range is reversed
CharRange(lo, hi) ==
    IF lo \in DOMAIN CodePoint /\ hi \in DOMAIN CodePoint
    THEN {c \in DOMAIN CodePoint : CodePoint[lo] <= CodePoint[c] /\ CodePoint[c] <= CodePoint[hi]}
    ELSE {}

\* the outcome of reading a bracket class
ClassOut(ok, set, pos) == [ok |-> ok, set |-> set, pos |-> pos]

RECURSIVE ParseClassItems(_, _, _, _)
\* the items of a bracket class from i on, acc the set so far, first = no item yet
ParseClassItems(p, i, acc, first) ==
    LET Add(set, next) ==
            IF set = {} THEN ClassOut(FALSE, {}, i)
            ELSE ParseClassItems(p, next, acc \cup set, FALSE)
    IN  IF i > Len(p) THEN ClassOut(FALSE, {}, i)
        ELSE IF Char(p, i) = "]" /\ ~first THEN ClassOut(TRUE, acc, i + 1)
        ELSE IF Char(p, i) = "\\"
             THEN IF i + 1 > Len(p) THEN ClassOut(FALSE, {}, i)
                  ELSE Add(EscapeClass(Char(p, i + 1)), i + 2)
        ELSE IF i + 2 <= Len(p) /\ Char(p, i + 1) = "-" /\ Char(p, i + 2) # "]"
             THEN Add(CharRange(Char(p, i), Char(p, i + 2)), i + 3)
        ELSE Add({Char(p, i)}, i + 1)

\* a bracket class starting at the [ at i
ParseClass(p, i, fold) ==
    LET neg == i + 1 <= Len(p) /\ Char(p, i + 1) = "^"
        Close(items, folded) ==
            IF ~items.ok THEN ClassOut(FALSE, {}, i)
            ELSE ClassOut(TRUE, IF neg THEN Alphabet \ folded ELSE folded, items.pos)
        Fold(items) == Close(items, FoldSet(items.set, fold))
    IN  Fold(ParseClassItems(p, IF neg THEN i + 2 ELSE i + 1, {}, TRUE))

RECURSIVE ParseAlt(_, _, _, _), ParseCat(_, _, _, _), ParseRep(_, _, _, _), ParseAtom(_, _, _, _)
\* alternation: cat ( | cat )*
ParseAlt(p, i, fold, ncap) ==
    LET Both(first, rest) ==
            IF ~rest.ok THEN rest
            ELSE ParseOk(ReAlt(first.node, rest.node), rest.pos, rest.ncap)
        After(first) ==
            IF ~first.ok THEN first
            ELSE IF first.pos <= Len(p) /\ Char(p, first.pos) = "|"
            THEN Both(first, ParseAlt(p, first.pos + 1, fold, first.ncap))
            ELSE first
    IN  After(ParseCat(p, i, fold, ncap))

\* concatenation: repetitions up to the end, a | or a )
ParseCat(p, i, fold, ncap) ==
    LET Both(item, rest) ==
            IF ~rest.ok THEN rest
            ELSE ParseOk(ReCat(<<item.node>> \o rest.node.args), rest.pos, rest.ncap)
        After(item) ==
            IF ~item.ok THEN item
            ELSE Both(item, ParseCat(p, item.pos, fold, item.ncap))
    IN  IF i > Len(p) \/ Char(p, i) \in {"|", ")"} THEN ParseOk(ReCat(<<>>), i, ncap)
        ELSE After(ParseRep(p, i, fold, ncap))

\* an atom and at most one repetition operator, possibly lazy
ParseRep(p, i, fold, ncap) ==
    LET Build(atom, quant, lazy, end) ==
            IF quant.max # -1 /\ quant.min > quant.max THEN ParseErr(atom.pos)
            ELSE IF ParseQuant(p, end).ok THEN ParseErr(end)
            ELSE IF atom.node.op \in {"bol", "eol"} THEN ParseErr(atom.pos)
            ELSE ParseOk(ReRep(atom.node, quant.min, quant.max, ~lazy), end, atom.ncap)
        Lazy(atom, quant, lazy) ==
            Build(atom, quant, lazy, IF lazy THEN quant.pos + 1 ELSE quant.pos)
        Repeat(atom, quant) ==
            IF ~quant.ok THEN atom
            ELSE Lazy(atom, quant, quant.pos <= Len(p) /\ Char(p, quant.pos) = "?")
        After(atom) == IF ~atom.ok THEN atom ELSE Repeat(atom, ParseQuant(p, atom.pos))
    IN  After(ParseAtom(p, i, fold, ncap))

\* a group, a class, an escape, an anchor or a literal
ParseAtom(p, i, fold, ncap) ==
    LET c == Char(p, i)
        Group(inner, idx) ==
            IF ~inner.ok THEN inner
            ELSE IF inner.pos > Len(p) THEN ParseErr(i)
            ELSE ParseOk(IF idx = 0 THEN inner.node ELSE ReCap(idx, inner.node),
                         inner.pos + 1, inner.ncap)
        Class(cls) == IF ~cls.ok THEN ParseErr(i) ELSE ParseOk(ReSet(cls.set), cls.pos, ncap)
        Escape(set) == IF set = {} THEN ParseErr(i) ELSE ParseOk(ReSet(set), i + 2, ncap)
    IN  IF c = "("
        THEN IF HasPrefixAt(p, i, "(?:") THEN Group(ParseAlt(p, i + 3, fold, ncap), 0)
             ELSE IF HasPrefixAt(p, i, "(?") THEN ParseErr(i)
             ELSE Group(ParseAlt(p, i + 1, fold, ncap + 1), ncap + 1)
        ELSE IF c = "[" THEN Class(ParseClass(p, i, fold))
        ELSE IF c = "\\"
        THEN IF i + 1 > Len(p) THEN ParseErr(i) ELSE Escape(EscapeClass(Char(p, i + 1)))
        ELSE IF c \in {"*", "+", "?"} THEN ParseErr(i)
        ELSE IF c = "." THEN ParseOk(ReSet(Alphabet \ {"\n"}), i + 1, ncap)
        ELSE IF c = "^" THEN ParseOk(ReBol, i + 1, ncap)
        ELSE IF c = "$" THEN ParseOk(ReEol, i + 1, ncap)
        ELSE ParseOk(ReSet(FoldSet({c}, fold)), i + 1, ncap)

\* the compiled expression: its source, its program and its number of groups
Regexp(src, prog, numSubexp) == [src |-> src, prog |-> prog, numSubexp |-> numSubexp]

\* regexp.Compile: [ok, re]
regexpCompile(pattern) ==
    LET Done(r) ==
            IF r.ok /\ r.pos > Len(pattern)
            THEN [ok |-> TRUE, re |-> Regexp(pattern, r.node, r.ncap)]
            ELSE [ok |-> FALSE, re |-> Regexp(pattern, ReCat(<<>>), 0)]
        Parse(fold) == Done(ParseAlt(pattern, IF fold THEN 5 ELSE 1, fold, 0))
    IN  Parse(HasPrefixAt(pattern, 1, "(?i)"))

\* the bookkeeping steps of a capture group
ReOpen(idx) == ReNode("open", {}, <<>>, 0, 0, idx, TRUE)
ReClose(idx) == ReNode("close", {}, <<>>, 0, 0, idx, TRUE)

\* the outcome of a matching attempt: the offset reached and the capture
\* groups' spans (offsets count the characters consumed; <<-1, -1>> = the group
\* did not participate)
ReOut(ok, pos, caps) == [ok |-> ok, pos |-> pos, caps |-> caps]
ReFail == ReOut(FALSE, 0, <<>>)

\* how many characters of s from offset p on lie in set, at most max of them
\* (max = -1: no limit)
ReRunLength(set, s, p, max) ==
    LET limit == IF max = -1 \/ max > Len(s) - p THEN Len(s) - p ELSE max
        stops == {k \in 0..limit : k = limit \/ Char(s, p + k + 1) \notin set}
    IN  CHOOSE k \in stops : \A j \in stops : k <= j

RECURSIVE ReRun(_, _, _, _), ReTryCounts(_, _, _, _, _, _, _)
\* a repetition of a character set followed by stack: the counts from k to last
\* tried in turn (step -1: greedy, longest first; step 1: lazy)
ReTryCounts(stack, s, p, caps, k, last, step) ==
    LET o == ReRun(stack, s, p + k, caps)
    IN  IF o.ok \/ k = last THEN o
        ELSE ReTryCounts(stack, s, p, caps, k + step, last, step)

\* the first way, in the order of preference of a backtracking (leftmost-first)
\* matcher, of matching the nodes of stack one after the other from offset p
\* of s.  A repetition that has met its minimum gives up an iteration that
\* consumed nothing (idx holds the offset at which that iteration began).
ReRun(stack, s, p, caps) ==
    IF stack = <<>> THEN ReOut(TRUE, p, caps)
    ELSE LET r == Head(stack)
             rest == Tail(stack)
         IN  CASE r.op = "set" ->
                    IF p < Len(s) /\ Char(s, p + 1) \in r.set
                    THEN ReRun(rest, s, p + 1, caps) ELSE ReFail
               [] r.op = "cat" -> ReRun(r.args \o rest, s, p, caps)
               [] r.op = "alt" ->
                    LET left == ReRun(<<r.args[1]>> \o rest, s, p, caps)
                    IN  IF left.ok THEN left ELSE ReRun(<<r.args[2]>> \o rest, s, p, caps)
               [] r.op = "rep" /\ r.args[1].op = "set" ->
                    LET run == ReRunLength(r.args[1].set, s, p, r.max)
                    IN  IF run < r.min THEN ReFail
                        ELSE IF r.greedy THEN ReTryCounts(rest, s, p, caps, run, r.min, -1)
                        ELSE ReTryCounts(rest, s, p, caps, r.min, run, 1)
               [] r.op = "rep" /\ r.args[1].op # "set" ->
                    LET again == [r EXCEPT !.min = IF r.min > 0 THEN r.min - 1 ELSE 0,
                                           !.max = IF r.max = -1 THEN -1 ELSE r.max - 1,
                                           !.idx = IF r.min > 0 THEN -1 ELSE p]
                        more == IF r.max # 0
                                THEN ReRun(<<r.args[1], again>> \o rest, s, p, caps)
                                ELSE ReFail
                        stop == IF r.min = 0 THEN ReRun(rest, s, p, caps) ELSE ReFail
                    IN  IF r.idx = p THEN ReFail
                        ELSE IF r.greedy THEN (IF more.ok THEN more ELSE stop)
                        ELSE IF stop.ok THEN stop ELSE more
               [] r.op = "cap" ->
                    ReRun(<<ReOpen(r.idx), r.args[1], ReClose(r.idx)>> \o rest, s, p, caps)
               [] r.op = "open" -> ReRun(rest, s, p, [caps EXCEPT ![r.idx] = <<p, -1>>])
               [] r.op = "close" -> ReRun(rest, s, p, [caps EXCEPT ![r.idx] = <<@[1], p>>])
               [] r.op = "bol" -> IF p = 0 THEN ReRun(rest, s, p, caps) ELSE ReFail
               [] r.op = "eol" -> IF p = Len(s) THEN ReRun(rest, s, p, caps) ELSE ReFail

\* the attempt to match re at offset p of s
ReAt(re, s, p) == ReRun(<<re.prog>>, s, p, [k \in 1..re.numSubexp |-> <<-1, -1>>])

\* the leftmost match of re in s: [ok, start, pos, caps]
ReSearch(re, s) ==
    LET Found(p0, o) == [ok |-> TRUE, start |-> p0, pos |-> o.pos, caps |-> o.caps]
        First(p0) == Found(p0, ReAt(re, s, p0))
        Pick(starts) ==
            IF starts = {} THEN [ok |-> FALSE, start |-> 0, pos |-> 0, caps |-> <<>>]
            ELSE First(CHOOSE p \in starts : \A q \in starts : p <= q)
    IN  Pick({p \in 0..Len(s) : ReAt(re, s, p).ok})

\* (*Regexp).FindStringSubmatch: <<>> (nil) when there is no match, else the
\* leftmost match followed by the text of every capture group, "" for a group
\* that did not participate
FindStringSubmatch(re, s) ==
    LET Submatches(m) ==
            IF ~m.ok THEN <<>>
            ELSE <<SubSeq(s, m.start + 1, m.pos)>> \o
                 [k \in 1..re.numSubexp |->
                     IF m.caps[k][2] < 0 THEN ""
                     ELSE SubSeq(s, m.caps[k][1] + 1, m.caps[k][2])]
    IN  Submatches(ReSearch(re, s))

\* (*Regexp).MatchString
MatchString(re, s) == FindStringSubmatch(re, s) # <<>>

(***************************************************************************)
(* Go values: maps, errors, interface{} values                             *)
(***************************************************************************)
\* the empty map
EmptyMap == <<>>

\* m[k] of a Go map: the zero value when k is absent
MapGet(m, k, zero) == IF k \in DOMAIN m THEN m[k] ELSE zero

\* m[k] = v
MapPut(m, k, v) == [x \in (DOMAIN m) \cup {k} |-> IF x = k THEN v ELSE m[x]]

\* error values
NilError == [isNil |-> TRUE, msg |-> ""]
Errorf(msg) == [isNil |-> FALSE, msg |-> msg]

\* interface{} values held in Intent.Vars: a string or a float64
StringValue(str) == [kind |-> "string", str |-> str, num |-> Zero]
FloatValue(num) == [kind |-> "float64", str |-> "", num |-> num]

(***************************************************************************)
(* internal/models/intent_config.go                                        *)
(***************************************************************************)
\* models.IntentPattern (Examples, which nothing reads, left out)
IntentPattern(description, keywords, phrases, regex, priority, variables, required, followUp) ==
    [Description |-> description, Keywords |-> keywords, Phrases |-> phrases,
     Regex |-> regex, Priority |-> priority, Variables |-> variables,
     Required |-> required, FollowUp |-> followUp]

\* models.EntityPattern (Description and Examples, which nothing reads, left out)
EntityPattern(type, regex, keywords) ==
    [Type |-> type, Regex |-> regex, Keywords |-> keywords]

\* models.IntentConfig
IntentConfig(domain, version, intents, entities, synonyms, confidence) ==
    [Domain |-> domain, Version |-> version, Intents |-> intents,
     Entities |-> entities, Synonyms |-> synonyms, Confidence |-> confidence]

\* the zero IntentConfig, standing for a nil *IntentConfig where a value is needed
NilConfig == IntentConfig("", "", EmptyMap, EmptyMap, EmptyMap, EmptyMap)

\* a rule that asks an intent for its description only
DescriptionMissing(intent) == intent.Description = ""

\* whether an intent fails a rule of Validate, and the error it then yields
IntentInvalid(intent) ==
    \/ intent.Description = ""
    \/ Len(intent.Keywords) = 0 /\ Len(intent.Phrases) = 0 /\ Len(intent.Regex) = 0

IntentError(intentName, intent) ==
    IF intent.Description = ""
    THEN Errorf("intent " \o intentName \o ": description is required")
    ELSE Errorf("intent " \o intentName \o ": must have at least keywords, phrases, or regex")

\* (*IntentConfig).Validate, the intents visited in the given order
Validate(c, order) ==
    IF c.Domain = "" THEN Errorf("domain is required")
    ELSE IF DOMAIN c.Intents = {} THEN Errorf("at least one intent must be defined")
    ELSE LET bad == {k \in 1..Len(order) : IntentInvalid(c.Intents[order[k]])}
         IN  IF bad = {} THEN NilError
             ELSE LET k == CHOOSE k \in bad : \A j \in bad : k <= j
                  IN  IntentError(order[k], c.Intents[order[k]])

\* a file: whether os.ReadFile succeeds, whether json.Unmarshal succeeds, and
\* the IntentConfig the document then decodes to
File(readable, wellFormed, config) ==
    [readable |-> readable, wellFormed |-> wellFormed, config |-> config]

\* models.LoadIntentConfig: [config, err], config meaningful when err is nil
LoadIntentConfig(file, order) ==
    IF ~file.readable
    THEN [config |-> NilConfig, err |-> Errorf("failed to read config file: open")]
    ELSE IF ~file.wellFormed
    THEN [config |-> NilConfig, err |-> Errorf("failed to parse config file: invalid character")]
    ELSE LET err == Validate(file.config, order)
         IN  IF ~err.isNil
             THEN [config |-> NilConfig, err |-> Errorf("invalid config: " \o err.msg)]
             ELSE [config |-> file.config, err |-> NilError]

\* models.GetDefaultConfig
GetDefaultConfig ==
    IntentConfig("personal_assistant", "1.0.0",
        [i \in {"CREATE_CONTACT", "FIND_CONTACT"} |->
            IF i = "CREATE_CONTACT"
            THEN IntentPattern("Create a new contact",
                    <<"create", "add", "new", "save">>,
                    <<"create contact", "add contact", "new contact", "save contact">>,
                    <<>>, 10, <<"name", "email", "phone">>, <<>>, <<>>)
            ELSE IntentPattern("Find or search for a contact",
                    <<"find", "search", "look", "get">>,
                    <<"find contact", "search contact", "look up contact">>,
                    <<>>, 8, <<"name">>, <<>>, <<>>)],
        [e \in {"name", "email", "phone"} |->
            CASE e = "name" ->
                    EntityPattern("name",
                        <<"(?i)(?:named\\s+|name\\s+is\\s+|call(?:ed)?\\s+)([A-Z][a-z]+(?:\\s+[A-Z][a-z]+)*)">>,
                        <<"named", "name", "called">>)
              [] e = "email" ->
                    EntityPattern("email",
                        <<"(?i)([a-zA-Z0-9._%+-]+@[a-zA-Z0-9.-]+\\.[a-zA-Z]{2,})">>,
                        <<"email", "e-mail", "mail">>)
              [] e = "phone" ->
                    EntityPattern("phone",
                        <<"(?i)(\\+\\d{1,3}[-.\\s]?)?\\(?\\d{3}\\)?[-.\\s]?\\d{3}[-.\\s]?\\d{4}">>,
                        <<"phone", "telephone", "mobile", "cell">>)],
        [w \in {"create", "find", "update", "delete"} |->
            CASE w = "create" -> <<"add", "new", "save", "store", "insert">>
              [] w = "find" -> <<"search", "look", "locate", "get">>
              [] w = "update" -> <<"change", "modify", "edit", "alter">>
              [] w = "delete" -> <<"remove", "drop", "erase", "clear">>],
        [i \in {"CREATE_CONTACT", "FIND_CONTACT", "UPDATE_CONTACT", "DELETE_CONTACT"} |->
            IF i = "CREATE_CONTACT" THEN Rat(7, 10) ELSE Rat(6, 10)])

(***************************************************************************)
(* internal/services/enhanced_local_provider.go: construction              *)
(***************************************************************************)
\* the slice of compiled expressions of a pattern list
CompileAll(patterns) == [k \in 1..Len(patterns) |-> regexpCompile(patterns[k]).re]

\* a check that takes every pattern list to compile
NoneInvalid(patterns) == FALSE

\* whether some pattern of the list fails to compile
SomeInvalid(patterns) == \E k \in 1..Len(patterns) : ~regexpCompile(patterns[k]).ok

\* CompiledConfig
CompiledConfig(intentRegexes, entityRegexes, keywordMap, phraseMap, synonymMap) ==
    [IntentRegexes |-> intentRegexes, EntityRegexes |-> entityRegexes,
     KeywordMap |-> keywordMap, PhraseMap |-> phraseMap, SynonymMap |-> synonymMap]

\* the zero CompiledConfig, standing for a nil *CompiledConfig
NilCompiled == CompiledConfig(EmptyMap, EmptyMap, EmptyMap, EmptyMap, EmptyMap)

RECURSIVE BuildSynonymMap(_, _, _, _)
\* the synonym loop of compileConfig from word k of the order on: every synonym
\* maps to its word, a later word overwriting an earlier one
BuildSynonymMap(synonyms, order, k, acc) ==
    IF k > Len(order) THEN acc
    ELSE LET word == order[k]
             syns == Range(synonyms[word])
         IN  BuildSynonymMap(synonyms, order, k + 1,
                 [x \in (DOMAIN acc) \cup syns |-> IF x \in syns THEN word ELSE acc[x]])

\* the first index of the order whose patterns do not all compile, 0 for none
FirstInvalid(patterns, order) ==
    LET Least(bad) == IF bad = {} THEN 0 ELSE CHOOSE k \in bad : \A j \in bad : k <= j
    IN  Least({k \in 1..Len(order) : SomeInvalid(patterns[order[k]].Regex)})

\* compileConfig: [compiled, err], the intents, entities and synonyms visited
\* in the given orders
compileConfig(config, intentOrder, entityOrder, synonymOrder) ==
    LET Failed(kind, entry) ==
            [compiled |-> NilCompiled,
             err |-> Errorf("invalid regex for " \o kind \o " " \o entry
                               \o ": error parsing regexp")]
        Compiled ==
            [compiled |->
                CompiledConfig(
                    [i \in DOMAIN config.Intents |-> CompileAll(config.Intents[i].Regex)],
                    [e \in DOMAIN config.Entities |-> CompileAll(config.Entities[e].Regex)],
                    [i \in DOMAIN config.Intents |-> config.Intents[i].Keywords],
                    [i \in DOMAIN config.Intents |-> config.Intents[i].Phrases],
                    BuildSynonymMap(config.Synonyms, synonymOrder, 1, EmptyMap)),
             err |-> NilError]
        AfterEntities(k) == IF k # 0 THEN Failed("entity", entityOrder[k]) ELSE Compiled
        AfterIntents(k) ==
            IF k # 0 THEN Failed("intent", intentOrder[k])
            ELSE AfterEntities(FirstInvalid(config.Entities, entityOrder))
    IN  AfterIntents(FirstInvalid(config.Intents, intentOrder))

\* EnhancedLocalProvider
EnhancedLocalProvider(config, compiled, path) ==
    [config |-> config, compiled |-> compiled, configPath |-> path]

\* the zero provider, standing for a nil AIProvider
NilProvider == EnhancedLocalProvider(NilConfig, NilCompiled, "")

\* a constructor that reads the file whatever the path is
NewProviderFromFileOnly(path, file, validateOrder, intentOrder, entityOrder, synonymOrder) ==
    LET Built(config, built) ==
            IF ~built.err.isNil
            THEN [provider |-> NilProvider,
                  err |-> Errorf("failed to compile config: " \o built.err.msg)]
            ELSE [provider |-> EnhancedLocalProvider(config, built.compiled, path),
                  err |-> NilError]
        Loaded(loaded) ==
            IF ~loaded.err.isNil
            THEN [provider |-> NilProvider,
                  err |-> Errorf("failed to load config from " \o path \o ": "
                                    \o loaded.err.msg)]
            ELSE Built(loaded.config,
                       compileConfig(loaded.config, intentOrder, entityOrder, synonymOrder))
    IN  Loaded(LoadIntentConfig(file, validateOrder))

\* NewEnhancedLocalProvider: [provider, err], provider meaningful when err is nil
NewEnhancedLocalProvider(path, file, validateOrder, intentOrder, entityOrder, synonymOrder) ==
    LET Built(config, built) ==
            IF ~built.err.isNil
            THEN [provider |-> NilProvider,
                  err |-> Errorf("failed to compile config: " \o built.err.msg)]
            ELSE [provider |-> EnhancedLocalProvider(config, built.compiled, path),
                  err |-> NilError]
        Loaded(loaded) ==
            IF ~loaded.err.isNil
            THEN [provider |-> NilProvider,
                  err |-> Errorf("failed to load config from " \o path \o ": "
                                    \o loaded.err.msg)]
            ELSE Built(loaded.config,
                       compileConfig(loaded.config, intentOrder, entityOrder, synonymOrder))
    IN  Loaded(IF path # "" THEN LoadIntentConfig(file, validateOrder)
               ELSE [config |-> GetDefaultConfig, err |-> NilError])

\* a normalization that stops after the punctuation has been mapped to spaces
normalizeTextOnePass(raw) ==
    LET Mapped(spaced) ==
            MapChars([c \in CharsOf(spaced) |->
                         IF IsPunct(c) /\ c \notin {"@", ".", "_", "-"} THEN " " ELSE c],
                     spaced, 1)
    IN  Mapped(Join(Fields(ToLower(raw)), " "))

(***************************************************************************)
(* internal/services/enhanced_local_provider.go: text helpers              *)
(***************************************************************************)
\* normalizeText
normalizeText(text) ==
    LET lowered == ToLower(text)
        spaced == Join(Fields(lowered), " ")
        mapped == MapChars([c \in CharsOf(spaced) |->
                              IF IsPunct(c) /\ c \notin {"@", ".", "_", "-"} THEN " " ELSE c],
                           spaced, 1)
    IN  Join(Fields(mapped), " ")

\* the key set of the stopWords map of isStopWord
StopWords ==
    {"the", "a", "an", "and", "or", "but",
     "in", "on", "at", "to", "for", "of",
     "with", "by", "from", "up", "about",
     "into", "through", "during", "before", "after",
     "above", "below", "between", "among",
     "is", "are", "was", "were", "be", "been",
     "have", "has", "had", "do", "does", "did",
     "will", "would", "could", "should", "may", "might"}

\* isStopWord
isStopWord(word) == word \in StopWords

\* tokenize
tokenize(text) ==
    LET NotStop(w) == ~isStopWord(w)
    IN  SelectSeq(Fields(ToLower(text)), NotStop)

\* getSynonyms
getSynonyms(p, word) ==
    IF word \in DOMAIN p.config.Synonyms THEN p.config.Synonyms[word] ELSE <<>>

RECURSIVE PhraseWords(_, _)
\* the words of phrases[k..], lower-cased
PhraseWords(phrases, k) ==
    IF k > Len(phrases) THEN <<>>
    ELSE Fields(ToLower(phrases[k])) \o PhraseWords(phrases, k + 1)

\* getIntentWords
getIntentWords(intent) == intent.Keywords \o PhraseWords(intent.Phrases, 1)

\* calculateWordOverlap
calculateWordOverlap(textWords, intentWords) ==
    IF Len(intentWords) = 0 THEN Zero
    ELSE LET textSet == Range(textWords)
             overlap == Cardinality({k \in 1..Len(intentWords) : intentWords[k] \in textSet})
         IN  Rat(overlap, Len(intentWords))

(***************************************************************************)
(* internal/services/enhanced_local_provider.go: classification            *)
(***************************************************************************)
RECURSIVE KeywordSumWithSynonyms(_, _, _, _)
\* a keyword loop that adds 0.3 for a synonym also when the keyword itself is found
KeywordSumWithSynonyms(p, textLower, keywords, k) ==
    IF k > Len(keywords) THEN Zero
    ELSE LET synonyms == getSynonyms(p, keywords[k])
             exact == IF Contains(textLower, ToLower(keywords[k])) THEN Rat(4, 10) ELSE Zero
             fuzzy == IF \E j \in 1..Len(synonyms) :
                             Contains(textLower, ToLower(synonyms[j]))
                      THEN Rat(3, 10) ELSE Zero
         IN  RatAdd(RatAdd(exact, fuzzy),
                    KeywordSumWithSynonyms(p, textLower, keywords, k + 1))

RECURSIVE KeywordSum(_, _, _, _)
\* the keyword loop of calculateIntentScore from keyword k on: 0.4 for a keyword
\* found in the text, else 0.3 when one of its synonyms is found
KeywordSum(p, textLower, keywords, k) ==
    IF k > Len(keywords) THEN Zero
    ELSE LET synonyms == getSynonyms(p, keywords[k])
             this == IF Contains(textLower, ToLower(keywords[k])) THEN Rat(4, 10)
                     ELSE IF \E j \in 1..Len(synonyms) :
                                 Contains(textLower, ToLower(synonyms[j]))
                          THEN Rat(3, 10)
                          ELSE Zero
         IN  RatAdd(this, KeywordSum(p, textLower, keywords, k + 1))

\* a score that adds 0.8 for every regex that matches and 0.6 for every phrase
\* that is found
calculateIntentScoreEveryMatch(p, text, intentName, intent) ==
    LET regexes == p.compiled.IntentRegexes[intentName]
        phrases == p.compiled.PhraseMap[intentName]
        keywords == p.compiled.KeywordMap[intentName]
        regexScore ==
            RatMul(FromInt(Cardinality({k \in 1..Len(regexes) : MatchString(regexes[k], text)})),
                   Rat(8, 10))
        PhraseScore(textLower) ==
            RatMul(FromInt(Cardinality({k \in 1..Len(phrases) :
                                           Contains(textLower, ToLower(phrases[k]))})),
                   Rat(6, 10))
        KeywordScore(keywordSum) ==
            IF Len(keywords) > 0 THEN RatMul(keywordSum, Rat(1, Len(keywords)))
            ELSE keywordSum
        Signals(textLower) ==
            RatAdd(RatAdd(regexScore, PhraseScore(textLower)),
                   KeywordScore(KeywordSum(p, textLower, keywords, 1)))
        overlap == calculateWordOverlap(tokenize(text), getIntentWords(intent))
        lengthBonus == IF Len(text) > 20 THEN Rat(1, 10) ELSE Zero
    IN  RatAdd(RatAdd(Signals(ToLower(text)), RatMul(overlap, Rat(2, 10))), lengthBonus)

\* calculateIntentScore
calculateIntentScore(p, text, intentName, intent) ==
    LET regexes == p.compiled.IntentRegexes[intentName]
        phrases == p.compiled.PhraseMap[intentName]
        keywords == p.compiled.KeywordMap[intentName]
        regexScore == IF \E k \in 1..Len(regexes) : MatchString(regexes[k], text)
                      THEN Rat(8, 10) ELSE Zero
        PhraseScore(textLower) ==
            IF \E k \in 1..Len(phrases) : Contains(textLower, ToLower(phrases[k]))
            THEN Rat(6, 10) ELSE Zero
        KeywordScore(keywordSum) ==
            IF Len(keywords) > 0 THEN RatMul(keywordSum, Rat(1, Len(keywords)))
            ELSE keywordSum
        Signals(textLower) ==
            RatAdd(RatAdd(regexScore, PhraseScore(textLower)),
                   KeywordScore(KeywordSum(p, textLower, keywords, 1)))
        overlap == calculateWordOverlap(tokenize(text), getIntentWords(intent))
        lengthBonus == IF Len(text) > 20 THEN Rat(1, 10) ELSE Zero
    IN  RatAdd(RatAdd(Signals(ToLower(text)), RatMul(overlap, Rat(2, 10))), lengthBonus)

\* the score of an intent with its priority boost, as compared in classifyIntent
BoostedScore(p, text, intentName) ==
    RatAdd(calculateIntentScore(p, text, intentName, p.config.Intents[intentName]),
           RatMul(FromInt(p.config.Intents[intentName].Priority), Rat(1, 10)))

\* IntentResult
IntentResult(intent, confidence) == [Intent |-> intent, Confidence |-> confidence]

RECURSIVE ScanIntentsLastWins(_, _, _, _, _)
\* a scoring loop that replaces the best intent on a greater or equal score
ScanIntentsLastWins(p, text, order, k, best) ==
    LET Keep(score) ==
            IF RatLeq(best.Confidence, score) THEN IntentResult(order[k], score) ELSE best
    IN  IF k > Len(order) THEN best
        ELSE ScanIntentsLastWins(p, text, order, k + 1, Keep(BoostedScore(p, text, order[k])))

RECURSIVE ScanIntents(_, _, _, _, _)
\* the scoring loop of classifyIntent from intent k of the order on: the best
\* intent and score so far are replaced on a strictly greater score
ScanIntents(p, text, order, k, best) ==
    LET Keep(score) ==
            IF RatLess(best.Confidence, score) THEN IntentResult(order[k], score) ELSE best
    IN  IF k > Len(order) THEN best
        ELSE ScanIntents(p, text, order, k + 1, Keep(BoostedScore(p, text, order[k])))

\* the default threshold applied to every intent, configured or not
ThresholdDefaultOnly(p, bestIntent) == Rat(5, 10)

\* the threshold classifyIntent applies to the best intent
Threshold(p, bestIntent) ==
    LET threshold == MapGet(p.config.Confidence, bestIntent, Zero)
    IN  IF threshold = Zero THEN Rat(5, 10) ELSE threshold

\* classifyIntent returning the best score as it is, without math.Min
classifyIntentUnclamped(p, text, order) ==
    LET Decide(best) ==
            IF RatLess(best.Confidence, Threshold(p, best.Intent))
            THEN IntentResult("UNKNOWN", Zero)
            ELSE best
    IN  Decide(ScanIntents(p, text, order, 1, IntentResult("UNKNOWN", Zero)))

\* classifyIntent, the intents visited in the given order
classifyIntent(p, text, order) ==
    LET Decide(best) ==
            IF RatLess(best.Confidence, Threshold(p, best.Intent))
            THEN IntentResult("UNKNOWN", MathMin(Zero, One))
            ELSE IntentResult(best.Intent, MathMin(best.Confidence, One))
    IN  Decide(ScanIntents(p, text, order, 1, IntentResult("UNKNOWN", Zero)))

(***************************************************************************)
(* internal/services/enhanced_local_provider.go: entity extraction         *)
(***************************************************************************)
\* the cutset of the strings.Trim calls of extractEntityByKeywords
TrimCutset == ".,!?;:"

\* a pattern for single-quoted spans, which extractEntityByKeywords does not use
SingleQuotePattern == regexpCompile("'([^']+)'").re

\* the quotePattern of extractEntityByKeywords
QuotePattern == regexpCompile("\"([^\"]+)\"").re

\* the least index of a non-empty set of indices
MinOf(S) == CHOOSE k \in S : \A j \in S : k <= j

\* the tests extractEntityByKeywords applies to the trimmed word after an anchor
LooksLike(kind, w) ==
    CASE kind = "name" -> Len(w) > 0 /\ IsUpper(Char(w, 1)) /\ ~isStopWord(ToLower(w))
      [] kind = "email" -> Contains(w, "@") /\ Contains(w, ".")
      [] kind = "phone" ->
            /\ ContainsAny(w, DigitChars)
            /\ (Contains(w, "-") \/ Contains(w, "(") \/ Len(w) >= 10)
      [] kind = "time" ->
            /\ ContainsAny(w, DigitChars)
            /\ (Contains(w, ":") \/ Contains(ToLower(w), "am") \/ Contains(ToLower(w), "pm"))

\* a loop "for i, word := range words" that returns the trimmed next word at the
\* first i where the lower-cased word is an anchor and the next word looks like
\* the kind of value wanted
NextWordAfter(words, anchors, kind) ==
    LET hits == {i \in 1..Len(words) :
                    /\ ToLower(words[i]) \in anchors
                    /\ i + 1 <= Len(words)
                    /\ LooksLike(kind, Trim(words[i + 1], TrimCutset))}
    IN  IF hits = {} THEN "" ELSE Trim(words[MinOf(hits) + 1], TrimCutset)

\* the words a title is made of in the "title" case
TitleBoundary(w) ==
    \/ isStopWord(w)
    \/ w \in {"tomorrow", "today", "yesterday", "at", "with", "email", "phone", "on", "in", "to"}

RECURSIVE TitleWords(_, _)
\* the inner loop of the "title" case from word j on
TitleWords(words, j) ==
    IF j > Len(words) THEN <<>>
    ELSE LET nextWord == Trim(words[j], TrimCutset)
         IN  IF Len(nextWord) = 0 THEN TitleWords(words, j + 1)
             ELSE IF TitleBoundary(ToLower(nextWord)) THEN <<>>
             ELSE <<nextWord>> \o TitleWords(words, j + 1)

\* the "title" case of extractEntityByKeywords after the quote pattern
TitleAfter(words) ==
    LET titles == {i \in 1..Len(words) :
                    /\ ToLower(words[i]) \in {"called", "titled", "named", "for"}
                    /\ Len(TitleWords(words, i + 1)) > 0}
        From(i) == Join(TitleWords(words, i + 1), " ")
    IN  IF titles = {} THEN "" ELSE From(MinOf(titles))

\* the "date" case of extractEntityByKeywords
DateIn(words) ==
    LET Word(i) == ToLower(Trim(words[i], TrimCutset))
        dates == {i \in 1..Len(words) : Word(i) \in {"today", "tomorrow", "yesterday"}}
    IN  IF dates = {} THEN "" ELSE Word(MinOf(dates))

\* extractEntityByKeywords (the entity pattern itself is not read)
extractEntityByKeywords(text, entityName) ==
    LET Switch(words, quoted) ==
            CASE entityName = "name" ->
                    IF Len(quoted) > 1 THEN quoted[2]
                    ELSE NextWordAfter(words, {"named", "name", "contact", "person"},
                                       "name")
              [] entityName = "email" ->
                    NextWordAfter(words, {"email", "e-mail", "mail"}, "email")
              [] entityName = "phone" ->
                    NextWordAfter(words, {"phone", "mobile", "cell"}, "phone")
              [] entityName = "date" -> DateIn(words)
              [] entityName = "time" -> NextWordAfter(words, {"at"}, "time")
              [] entityName = "location" -> NextWordAfter(words, {"in", "at"}, "name")
              [] entityName = "title" ->
                    IF Len(quoted) > 1 THEN quoted[2] ELSE TitleAfter(words)
              [] OTHER -> ""
    IN  Switch(Fields(text), FindStringSubmatch(QuotePattern, text))

\* one entity of extractEntities: the first regex with a match sets the entry
\* to its first group, then an absent or empty entry is set by the keyword
\* strategy when that finds a value
ExtractOne(p, text, entities, entityName) ==
    LET regexes == p.compiled.EntityRegexes[entityName]
        Matches(k) == FindStringSubmatch(regexes[k], text)
        ByRegex(hits) ==
            IF hits = {} THEN entities
            ELSE MapPut(entities, entityName, Matches(MinOf(hits))[2])
        Put(afterRegex, value) ==
            IF value # "" THEN MapPut(afterRegex, entityName, value) ELSE afterRegex
        ByKeywords(afterRegex) ==
            IF MapGet(afterRegex, entityName, "") = ""
            THEN Put(afterRegex, extractEntityByKeywords(text, entityName))
            ELSE afterRegex
    IN  ByKeywords(ByRegex({k \in 1..Len(regexes) : Len(Matches(k)) > 1}))

RECURSIVE ExtractOthers(_, _, _, _, _)
\* the third loop of extractEntities from entity k of the order on
ExtractOthers(p, text, order, k, entities) ==
    IF k > Len(order) THEN entities
    ELSE IF order[k] \in {"name", "title"}
         THEN ExtractOthers(p, text, order, k + 1, entities)
         ELSE ExtractOthers(p, text, order, k + 1, ExtractOne(p, text, entities, order[k]))

\* a loop that extracts its key only while no other entity has been extracted
ExtractKeyOnce(p, text, entities, entityName) ==
    IF entityName \in DOMAIN p.config.Entities /\ entities = EmptyMap
    THEN ExtractOne(p, text, entities, entityName) ELSE entities

\* one of the first two loops of extractEntities: it acts on one key only
ExtractKey(p, text, entities, entityName) ==
    IF entityName \in DOMAIN p.config.Entities
    THEN ExtractOne(p, text, entities, entityName) ELSE entities

\* extractEntities, the other entities visited in the given order
extractEntities(p, text, order) ==
    ExtractOthers(p, text, order, 1,
        ExtractKey(p, text, ExtractKey(p, text, EmptyMap, "name"), "title"))

(***************************************************************************)
(* internal/services/enhanced_local_provider.go: completion and the call   *)
(***************************************************************************)
RECURSIVE CamelWords(_, _)
\* the default case of getIntentDisplayName from character i on: a space before
\* every upper-case character but the first, every character lower-cased
CamelWords(intentName, i) ==
    IF i > Len(intentName) THEN ""
    ELSE (IF i > 1 /\ IsUpper(Char(intentName, i)) THEN " " ELSE "")
            \o ToLowerChar(Char(intentName, i)) \o CamelWords(intentName, i + 1)

\* getIntentDisplayName
getIntentDisplayName(intentName) ==
    CASE intentName = "CreateEvent" -> "event"
      [] intentName = "CreateTask" -> "task"
      [] intentName = "CreateContact" -> "contact"
      [] intentName = "CreateNote" -> "note"
      [] intentName = "Weather" -> "weather"
      [] intentName = "Time" -> "time"
      [] intentName = "Calculator" -> "calculation"
      [] OTHER -> CamelWords(intentName, 1)

\* a question taken from the last custom template that names the field
generateFollowUpQuestionLastMatch(intentName, field, customFollowUp) ==
    LET custom == {k \in 1..Len(customFollowUp) :
                      Contains(ToLower(customFollowUp[k]), ToLower(field))}
    IN  IF custom # {} THEN customFollowUp[CHOOSE k \in custom : \A j \in custom : j <= k]
        ELSE "What " \o field \o " should I use for this "
                \o getIntentDisplayName(intentName) \o "?"

\* generateFollowUpQuestion
generateFollowUpQuestion(intentName, field, customFollowUp) ==
    LET custom == {k \in 1..Len(customFollowUp) :
                      Contains(ToLower(customFollowUp[k]), ToLower(field))}
        display == getIntentDisplayName(intentName)
    IN  IF custom # {} THEN customFollowUp[MinOf(custom)]
        ELSE CASE field = "title" -> "What should I call this " \o display \o "?"
               [] field = "name" -> "What's the name?"
               [] field = "email" -> "What's the email address?"
               [] field = "phone" -> "What's the phone number?"
               [] field = "date" -> "When should this " \o display \o " be scheduled?"
               [] field = "time" -> "What time should this " \o display \o " be?"
               [] field = "duration" -> "How long should this " \o display \o " last?"
               [] field = "location" -> "Where should this " \o display \o " take place?"
               [] field = "description" ->
                      "Can you provide more details about this " \o display \o "?"
               [] field = "priority" -> "What priority should this " \o display \o " have?"
               [] OTHER -> "What " \o field \o " should I use for this " \o display \o "?"

\* models.Intent (its Confidence field, which the provider never sets, left out)
Intent(task, vars, missing, followUp, isComplete) ==
    [Task |-> task, Vars |-> vars, Missing |-> missing, FollowUp |-> followUp,
     IsComplete |-> isComplete]

\* a check of required fields that reports none as missing
FieldNeverMissing(vars, field) == FALSE

\* whether a required field counts as missing from Vars
FieldMissing(vars, field) ==
    \/ field \notin DOMAIN vars
    \/ vars[field].kind = "string" /\ vars[field].str = ""

\* a completion step that lists the missing fields and reports the intent complete
addMissingAndComplete(p, intent, intentName) ==
    LET IsMissing(field) == FieldMissing(intent.Vars, field)
    IN  IF intentName \notin DOMAIN p.config.Intents THEN intent
        ELSE Intent(intent.Task, intent.Vars,
                    SelectSeq(p.config.Intents[intentName].Required, IsMissing), <<>>, TRUE)

\* a completion step that asks for every required field, supplied or not
addAllRequired(p, intent, intentName) ==
    LET Questions(intentPattern, missing) ==
            [k \in 1..Len(missing) |->
                generateFollowUpQuestion(intentName, missing[k], intentPattern.FollowUp)]
        Complete(intentPattern, missing) ==
            Intent(intent.Task, intent.Vars, missing,
                   Questions(intentPattern, missing), Len(missing) = 0)
    IN  IF intentName \notin DOMAIN p.config.Intents THEN intent
        ELSE Complete(p.config.Intents[intentName], p.config.Intents[intentName].Required)

\* addMissingFieldsAndFollowUp: the intent with Missing, FollowUp and IsComplete set
addMissingFieldsAndFollowUp(p, intent, intentName) ==
    LET IsMissing(field) == FieldMissing(intent.Vars, field)
        NotEmpty(q) == q # ""
        Questions(intentPattern, missing) ==
            [k \in 1..Len(missing) |->
                generateFollowUpQuestion(intentName, missing[k], intentPattern.FollowUp)]
        Complete(intentPattern, missing) ==
            Intent(intent.Task, intent.Vars, missing,
                   SelectSeq(Questions(intentPattern, missing), NotEmpty), Len(missing) = 0)
        Check(intentPattern) ==
            Complete(intentPattern, SelectSeq(intentPattern.Required, IsMissing))
    IN  IF intentName \notin DOMAIN p.config.Intents THEN intent
        ELSE Check(p.config.Intents[intentName])

\* an ExtractIntent that stores the confidence before it copies the entities
ExtractIntentEntitiesLast(p, text, intentOrder, entityOrder) ==
    LET VarsOf(intentResult, entities) ==
            [v \in DOMAIN entities \cup {"confidence"} |->
                IF v \in DOMAIN entities THEN StringValue(entities[v])
                ELSE FloatValue(intentResult.Confidence)]
        Finish(intentResult, intent) ==
            IF intentResult.Intent # "UNKNOWN"
            THEN addMissingFieldsAndFollowUp(p, intent, intentResult.Intent)
            ELSE intent
        Build(intentResult, entities) ==
            Finish(intentResult,
                   Intent(intentResult.Intent, VarsOf(intentResult, entities), <<>>, <<>>, FALSE))
    IN  Build(classifyIntent(p, normalizeText(text), intentOrder),
              extractEntities(p, text, entityOrder))

\* (*EnhancedLocalProvider).ExtractIntent, the maps visited in the given orders
ExtractIntent(p, text, intentOrder, entityOrder) ==
    LET VarsOf(intentResult, entities) ==
            MapPut([e \in DOMAIN entities |-> StringValue(entities[e])],
                   "confidence", FloatValue(intentResult.Confidence))
        Finish(intentResult, intent) ==
            IF intentResult.Intent # "UNKNOWN"
            THEN addMissingFieldsAndFollowUp(p, intent, intentResult.Intent)
            ELSE intent
        Build(intentResult, entities) ==
            Finish(intentResult,
                   Intent(intentResult.Intent, VarsOf(intentResult, entities), <<>>, <<>>, FALSE))
    IN  Build(classifyIntent(p, normalizeText(text), intentOrder),
              extractEntities(p, text, entityOrder))

(***************************************************************************)
(* The environment: configuration files and input texts                    *)
(***************************************************************************)
EmailPattern == "(?i)([a-zA-Z0-9._%+-]+@[a-zA-Z0-9.-]+\\.[a-zA-Z]{2,})"

\* a contact domain: AddContact has priority addPriority, the thresholds are
\* those of the confidence map
ContactsConfig(addPriority, confidence) ==
    IntentConfig("contacts", "1.0.0",
        [i \in {"AddContact", "FindContact"} |->
            IF i = "AddContact"
            THEN IntentPattern("Add a contact",
                    <<"add", "contact">>, <<"add contact">>, <<"^(add|create)\\s+contact">>,
                    addPriority, <<"name", "email">>, <<"name">>,
                    <<"Who is it? Give me a name.">>)
            ELSE IntentPattern("Find a contact",
                    <<"find", "contact">>, <<>>, <<>>,
                    0, <<"name">>, <<"name", "email">>, <<>>)],
        [e \in {"name", "email", "topic"} |->
            CASE e = "name" -> EntityPattern("name", <<>>, <<"named">>)
              [] e = "email" -> EntityPattern("email", <<EmailPattern>>, <<"email">>)
              [] e = "topic" -> EntityPattern("text", <<"about\\s+(\\w+)">>, <<"about">>)],
        [w \in {"find", "add"} |->
            IF w = "find" THEN <<"search", "locate">> ELSE <<"create", "new">>],
        confidence)

\* the priorities of AddContact and the confidence maps the contact domain is
\* tried with: usual thresholds, a negative priority, a threshold above 1, an
\* explicit 0 and a negative one, an entry for UNKNOWN
ContactsVariants ==
    { [priority |-> 1, confidence |-> [i \in {"AddContact"} |-> Rat(7, 10)]],
      [priority |-> -2, confidence |-> [i \in {"AddContact"} |-> Rat(7, 10)]],
      [priority |-> 4, confidence |-> [i \in {"AddContact"} |-> Rat(3, 2)]],
      [priority |-> 4, confidence |-> [i \in {"AddContact"} |-> Rat(9, 10)]],
      [priority |-> 1, confidence |->
          [i \in {"AddContact", "FindContact"} |-> IF i = "AddContact" THEN Zero ELSE Rat(-1, 2)]],
      [priority |-> -2, confidence |->
          [i \in {"AddContact", "UNKNOWN"} |-> IF i = "AddContact" THEN Rat(9, 10) ELSE Rat(-1, 1)]] }

\* a task domain: two intents of equal priority that share a keyword
TasksConfig ==
    IntentConfig("tasks", "2.0",
        [i \in {"CreateTask", "CreateNote"} |->
            IF i = "CreateTask"
            THEN IntentPattern("Create a task",
                    <<"create", "task">>, <<"new task">>, <<>>,
                    2, <<"title", "date", "time", "location">>, <<"title">>, <<>>)
            ELSE IntentPattern("Create a note",
                    <<"create", "note">>, <<>>, <<"^(write|create)\\s+(a\\s+)?note">>,
                    2, <<"title">>, <<"title", "date">>, <<"What date is the note for?">>)],
        [e \in {"name", "title", "date", "time", "location"} |-> EntityPattern(e, <<>>, <<>>)],
        EmptyMap,
        [i \in {"CreateNote"} |-> Rat(6, 10)])

\* a note domain: one intent, one entity
NotesConfig ==
    IntentConfig("notes", "1.0",
        [i \in {"CreateNote"} |->
            IntentPattern("Create a note", <<"note">>, <<>>, <<>>, 3, <<"title">>, <<"title">>, <<>>)],
        [e \in {"title"} |-> EntityPattern("text", <<>>, <<>>)],
        EmptyMap,
        EmptyMap)

\* config with one more intent
WithIntent(config, intentName, intent) ==
    [config EXCEPT !.Intents = MapPut(config.Intents, intentName, intent)]

\* config with one more entity
WithEntity(config, entityName, entity) ==
    [config EXCEPT !.Entities = MapPut(config.Entities, entityName, entity)]

\* the intents and entities that fail validation or compilation
NoPatterns == IntentPattern("Matches nothing", <<>>, <<>>, <<>>, 5, <<>>, <<>>, <<>>)
NoDescription == IntentPattern("", <<"note">>, <<>>, <<>>, 0, <<>>, <<>>, <<>>)
BadRegexIntent == IntentPattern("Unbalanced", <<"list">>, <<>>, <<"(list|show">>, 0, <<>>, <<>>, <<>>)
BadRegexEntity == EntityPattern("number", <<"(\\d+)", "[0-9">>, <<>>)

\* every environment: the value of INTENT_CONFIG_PATH and the file found there
Environments ==
    {[configPath |-> "", file |-> File(FALSE, FALSE, NilConfig)]}
    \cup {[configPath |-> "configs/contacts.json",
           file |-> File(TRUE, TRUE, ContactsConfig(v.priority, v.confidence))] :
            v \in ContactsVariants}
    \cup {[configPath |-> "configs/tasks.json", file |-> File(TRUE, TRUE, TasksConfig)]}
    \cup {[configPath |-> "configs/notes.json", file |-> f] : f \in
            { File(TRUE, TRUE, NotesConfig),
              File(FALSE, FALSE, NilConfig),
              File(TRUE, FALSE, NilConfig),
              File(TRUE, TRUE, [NotesConfig EXCEPT !.Domain = ""]),
              File(TRUE, TRUE, [NotesConfig EXCEPT !.Intents = EmptyMap]),
              File(TRUE, TRUE, WithIntent(NotesConfig, "Idle", NoPatterns)),
              File(TRUE, TRUE, WithIntent(NotesConfig, "Untitled", NoDescription)),
              File(TRUE, TRUE, WithIntent(WithIntent(NotesConfig, "Idle", NoPatterns),
                                          "Untitled", NoDescription)),
              File(TRUE, TRUE, WithIntent(NotesConfig, "ListNotes", BadRegexIntent)),
              File(TRUE, TRUE, WithEntity(NotesConfig, "count", BadRegexEntity)),
              File(TRUE, TRUE, WithEntity(WithIntent(NotesConfig, "ListNotes", BadRegexIntent),
                                          "count", BadRegexEntity)),
              File(TRUE, TRUE, WithIntent(WithIntent(NotesConfig, "ListNotes", BadRegexIntent),
                                          "ShowNotes", BadRegexIntent)),
              File(TRUE, TRUE, WithIntent(WithIntent(NotesConfig, "ListNotes", BadRegexIntent),
                                          "Idle", NoPatterns)) }}

\* the texts given to ExtractIntent
Texts ==
    { "create a new contact named bob",
      "find contact alice",
      "xyz zzz qqq",
      "phone 555-123-4567 email alice@example.com",
      "ring 555-123-4567",
      "add contact Bob \"Al\"",
      "add contact named Bob \"Al\"",
      "add contact",
      "contact",
      "find contact Bob",
      "create",
      "Create task called Buy milk tomorrow at 3pm in Paris.",
      "write a note about Lunch",
      "" }

(***************************************************************************)
(* The state machine                                                       *)
(***************************************************************************)
VARIABLES
    configPath,   \* INTENT_CONFIG_PATH
    file,         \* the file at configPath
    pc,           \* "start", then "ready" (a provider exists) or "failed"
    provider,     \* the EnhancedLocalProvider, NilProvider unless pc = "ready"
    err,          \* the error NewEnhancedLocalProvider returned
    text,         \* the text the caller passes to ExtractIntent
    called,       \* whether ExtractIntent has returned for text
    intentOrder,  \* the order in which the last call iterated config.Intents
    result        \* the *models.Intent the last call returned

\* the functions of internal/models and the text helpers, applied on their own
VARIABLES
    fn,           \* the function applied last, "none" before
    input,        \* its argument: [kind, text, intent]
    output        \* what it returned: [text, intent, err]

\* IntentService: the process environment, the provider NewIntentService chose
\* (an EnhancedLocalProvider is held in provider), the error of the last request
VARIABLES
    environ,      \* [AI_PROVIDER, OPENAI_API_KEY, ollama, revision]
    aiProvider,   \* s.aiProvider: "none", "openai", "ollama", "enhanced_local", "local"
    serveErr      \* the error IntentService.ExtractIntent returned last

\* concurrent callers of one provider
VARIABLES
    calls,        \* per caller: the step it is at and its local variables
    constructed   \* the provider as NewEnhancedLocalProvider returned it

providerVars == <<configPath, file, pc, provider, err, text, called, intentOrder, result>>
functionVars == <<fn, input, output>>
serviceVars == <<environ, aiProvider, serveErr>>
callVars == <<calls, constructed>>

vars == <<providerVars, functionVars, serviceVars, callVars>>

NilIntent == Intent("", EmptyMap, <<>>, <<>>, FALSE)

\* no function has been applied on its own
NoFunction ==
    /\ fn = "none"
    /\ input = [kind |-> "none", text |-> "", intent |-> NilIntent]
    /\ output = [text |-> "", intent |-> NilIntent, err |-> NilError]

\* no IntentService has been built
NoService ==
    /\ environ = [AI_PROVIDER |-> "", OPENAI_API_KEY |-> "", ollama |-> FALSE, revision |-> ""]
    /\ aiProvider = "none"
    /\ serveErr = NilError

\* no caller has started
NoCalls ==
    /\ calls = <<>>
    /\ constructed = NilProvider

Init ==
    /\ NoFunction
    /\ NoService
    /\ NoCalls
    /\ \E env \in Environments : configPath = env.configPath /\ file = env.file
    /\ pc = "start"
    /\ provider = NilProvider
    /\ err = NilError
    /\ text = ""
    /\ called = FALSE
    /\ intentOrder = <<>>
    /\ result = NilIntent

\* the configuration NewEnhancedLocalProvider goes on with after loading
LoadedIntents == IF configPath = "" THEN GetDefaultConfig ELSE file.config

\* NewEnhancedLocalProvider(configPath) is called and returns
Construct ==
    /\ pc = "start"
    /\ \E vo \in Orders(DOMAIN LoadedIntents.Intents),
          io \in Orders(DOMAIN LoadedIntents.Intents),
          eo \in Orders(DOMAIN LoadedIntents.Entities),
          so \in Orders(DOMAIN LoadedIntents.Synonyms) :
            LET Return(built) ==
                    /\ provider' = built.provider
                    /\ err' = built.err
                    /\ pc' = IF built.err.isNil THEN "ready" ELSE "failed"
            IN  Return(NewEnhancedLocalProvider(configPath, file, vo, io, eo, so))
    /\ UNCHANGED <<configPath, file, text, called, intentOrder, result>>
    /\ UNCHANGED <<functionVars, serviceVars, callVars>>

\* the caller of the provider turns to another text
Receive ==
    /\ pc = "ready"
    /\ \E t \in Texts \ {text} : text' = t
    /\ called' = FALSE
    /\ intentOrder' = <<>>
    /\ result' = NilIntent
    /\ UNCHANGED <<configPath, file, pc, provider, err>>
    /\ UNCHANGED <<functionVars, serviceVars, callVars>>

\* provider.ExtractIntent(ctx, text) is called and returns; the provider is
\* only read, so the call may be repeated
Extract ==
    /\ pc = "ready"
    /\ \E io \in Orders(DOMAIN provider.config.Intents),
          eo \in Orders(DOMAIN provider.config.Entities \ {"name", "title"}) :
            /\ intentOrder' = io
            /\ result' = ExtractIntent(provider, text, io, eo)
    /\ called' = TRUE
    /\ UNCHANGED <<configPath, file, pc, provider, err, text>>
    /\ UNCHANGED <<functionVars, serviceVars, callVars>>

Next == Construct \/ Receive \/ Extract

Spec == Init /\ [][Next]_vars

(***************************************************************************)
(* Properties                                                              *)
(***************************************************************************)
\* the confidence classifyIntent returned, as ExtractIntent stores it in Vars
ConfidenceOf(intent) == intent.Vars["confidence"].num

\* the entity map of a returned intent: Vars without the confidence
EntitiesOf(intent) ==
    [e \in {v \in DOMAIN intent.Vars : intent.Vars[v].kind = "string"} |-> intent.Vars[e].str]

\* C1: whatever the text and the configuration (negative priorities, thresholds
\* outside [0,1], texts on which no signal fires), classifyIntent returns a
\* confidence between 0 and 1 and an intent that is a key of the configured
\* intents or "UNKNOWN"
C1_ConfidenceAndIntentInRange ==
    called =>
        /\ RatLeq(Zero, ConfidenceOf(result))
        /\ RatLeq(ConfidenceOf(result), One)
        /\ result.Task \in DOMAIN provider.config.Intents \cup {"UNKNOWN"}

\* a call has returned for a text without any signal on a configuration with
\* a negative priority and a threshold outside [0,1]
C1_Witness ==
    /\ called
    /\ text = "xyz zzz qqq"
    /\ \E i \in DOMAIN provider.config.Intents : provider.config.Intents[i].Priority < 0
    /\ \E i \in DOMAIN provider.config.Confidence :
          \/ RatLess(provider.config.Confidence[i], Zero)
          \/ RatLess(One, provider.config.Confidence[i])
    /\ result.Task = "UNKNOWN"

\* the highest boosted score (signal score plus priority * 0.1) of the
\* configured intents on the normalized text
HighestBoosted(p, t) ==
    LET scores == {BoostedScore(p, t, i) : i \in DOMAIN p.config.Intents}
    IN  CHOOSE s \in scores : \A r \in scores : RatLeq(r, s)

\* the intent that achieved a score: the first one of the iteration order with it
Achiever(p, t, order, score) ==
    order[MinOf({k \in 1..Len(order) : BoostedScore(p, t, order[k]) = score})]

\* the threshold of an intent: the configured one, else 0.5
ConfiguredThreshold(p, i) ==
    IF i \in DOMAIN p.config.Confidence THEN p.config.Confidence[i] ELSE Rat(5, 10)

\* C2: whenever the highest boosted score is below the threshold of the intent
\* that achieved it (the configured threshold, else 0.5), the result is exactly
\* ("UNKNOWN", 0), whichever intent scored highest and even when another intent
\* meets its own threshold; an intent that is returned has the highest score
C2_BelowThresholdIsUnknown ==
    called =>
        LET t == normalizeText(text)
            Holds(high) ==
                /\ RatLess(high, ConfiguredThreshold(provider, Achiever(provider, t, intentOrder, high)))
                        => result.Task = "UNKNOWN" /\ ConfidenceOf(result) = Zero
                /\ result.Task # "UNKNOWN" => BoostedScore(provider, t, result.Task) = high
        IN  Holds(HighestBoosted(provider, t))

\* a call has returned ("UNKNOWN", 0) because the highest score was below the
\* threshold of its intent, while another intent met its own threshold
C2_Witness ==
    /\ called
    /\ result.Task = "UNKNOWN"
    /\ ConfidenceOf(result) = Zero
    /\ LET t == normalizeText(text)
           Below(high) ==
                /\ RatLess(high, ConfiguredThreshold(provider, Achiever(provider, t, intentOrder, high)))
                /\ \E j \in DOMAIN provider.config.Intents :
                      /\ RatLess(BoostedScore(provider, t, j), high)
                      /\ RatLeq(ConfiguredThreshold(provider, j), BoostedScore(provider, t, j))
       IN  Below(HighestBoosted(provider, t))

\* C3: ExtractIntent is deterministic: a call with the same text on the same
\* provider returns the same task, variables, confidence, missing fields,
\* follow-up and completeness whatever order the maps are iterated in, also
\* when boosted scores tie exactly
C3_SameResultWhateverOrder ==
    called =>
        \A io \in Orders(DOMAIN provider.config.Intents),
           eo \in Orders(DOMAIN provider.config.Entities \ {"name", "title"}) :
            ExtractIntent(provider, text, io, eo) = result

\* whether no regex, phrase, keyword, synonym or word-overlap signal fires for
\* any configured intent on a text of at most 20 characters (no length bonus)
NoSignal(p, t) ==
    /\ Len(t) <= 20
    /\ \A i \in DOMAIN p.config.Intents :
          calculateIntentScore(p, normalizeText(t), i, p.config.Intents[i]) = Zero

\* C4: a text of at most 20 characters on which no signal fires for any
\* configured intent yields "UNKNOWN" with confidence 0 and an empty entity
\* map, in particular "xyz zzz qqq" on the default configuration
C4_NoSignalIsUnknown ==
    called /\ NoSignal(provider, text) =>
        /\ result.Task = "UNKNOWN"
        /\ ConfidenceOf(result) = Zero
        /\ EntitiesOf(result) = EmptyMap

\* the content of the leftmost double-quoted non-empty span of a text, "" when
\* the text has none
QuotedSpan(t) ==
    LET quotes == {i \in 1..Len(t) : Char(t, i) = "\""}
        NextQuote(i) == MinOf({j \in quotes : j > i})
        opens == {i \in quotes : (\E j \in quotes : j > i) /\ NextQuote(i) > i + 1}
        Content(i) == SubSeq(t, i + 1, NextQuote(i) - 1)
    IN  IF opens = {} THEN "" ELSE Content(MinOf(opens))

\* what the regex strategy of extractEntities yields for an entity: the first
\* capture group of the first of its expressions that matches, "" when none does
RegexValue(p, t, entityName) ==
    LET regexes == p.compiled.EntityRegexes[entityName]
        hits == {k \in 1..Len(regexes) : Len(FindStringSubmatch(regexes[k], t)) > 1}
        Group(k) == FindStringSubmatch(regexes[k], t)[2]
    IN  IF hits = {} THEN "" ELSE Group(MinOf(hits))

\* the anchor-keyword candidate for a name: the word after the first of
\* named/name/contact/person that is followed by a capitalised non-stop word
AnchorCandidate(t) ==
    LET words == Fields(t)
        Capitalised(w) == Len(w) > 0 /\ IsUpper(Char(w, 1)) /\ ~isStopWord(ToLower(w))
        After(i) == Trim(words[i + 1], ".,!?;:")
        hits == {i \in 1..(Len(words) - 1) :
                    /\ ToLower(words[i]) \in {"named", "name", "contact", "person"}
                    /\ Capitalised(After(i))}
    IN  IF hits = {} THEN "" ELSE After(MinOf(hits))

\* whether the returned intent carries a non-empty value for a field
Supplied(intent, field) ==
    field \in DOMAIN intent.Vars /\ intent.Vars[field] # StringValue("")

\* C5 as stated: when an entity named name is configured and the text has a
\* double-quoted non-empty span, the extracted name is the content of that span
C5_NameIsQuotedSpan ==
    called /\ "name" \in DOMAIN provider.config.Entities /\ QuotedSpan(text) # "" =>
        /\ "name" \in DOMAIN EntitiesOf(result)
        /\ EntitiesOf(result)["name"] = QuotedSpan(text)

\* C5 amended: when an entity named name is configured, none of its regular
\* expressions yields a non-empty first group and the text has a double-quoted
\* non-empty span, the extracted name is the content of the leftmost such span,
\* whatever anchor-keyword candidate the text holds
C5_QuotedSpanAfterRegex ==
    called /\ "name" \in DOMAIN provider.config.Entities /\ QuotedSpan(text) # ""
           /\ RegexValue(provider, text, "name") = "" =>
        /\ "name" \in DOMAIN EntitiesOf(result)
        /\ EntitiesOf(result)["name"] = QuotedSpan(text)

\* a call has extracted the quoted span as the name from a text that also holds
\* a different anchor-keyword candidate
C5_Witness ==
    /\ called
    /\ "name" \in DOMAIN provider.config.Entities
    /\ QuotedSpan(text) = "Al"
    /\ RegexValue(provider, text, "name") = ""
    /\ AnchorCandidate(text) = "Bob"
    /\ "name" \in DOMAIN EntitiesOf(result)
    /\ EntitiesOf(result)["name"] = "Al"

\* whether a keyword of the intent occurs in the normalized text
KeywordsMatch(p, t, intentName) ==
    \E k \in 1..Len(p.config.Intents[intentName].Keywords) :
        Contains(ToLower(normalizeText(t)), ToLower(p.config.Intents[intentName].Keywords[k]))

\* whether the follow-up prompts of the result hold a non-empty prompt for name
PromptsForName(p, intent, intentName) ==
    LET Asked(q) == q # "" /\ q \in Range(intent.FollowUp)
    IN  Asked(generateFollowUpQuestion(intentName, "name", p.config.Intents[intentName].FollowUp))

\* C6 as stated: for an intent whose required list contains name, a text that
\* matches the intent's keywords and supplies no name yields Missing = ["name"],
\* IsComplete = false and a non-empty follow-up prompt for name
C6_MissingIsName ==
    called =>
        \A i \in DOMAIN provider.config.Intents :
            /\ "name" \in Range(provider.config.Intents[i].Required)
            /\ KeywordsMatch(provider, text, i)
            /\ ~Supplied(result, "name")
            => /\ result.Missing = <<"name">>
               /\ ~result.IsComplete
               /\ \E j \in DOMAIN provider.config.Intents :
                     PromptsForName(provider, result, j)

\* C6 amended: when the returned task is an intent whose required list contains
\* name and no non-empty name was extracted, Missing contains name (and is
\* exactly ["name"] when name is the only required field without a value),
\* IsComplete is false and the follow-up holds a non-empty prompt for name
C6_MissingHasName ==
    called /\ result.Task \in DOMAIN provider.config.Intents =>
        LET Unsupplied(field) == ~Supplied(result, field)
            Holds(required) ==
                "name" \in Range(required) /\ ~Supplied(result, "name")
                => /\ "name" \in Range(result.Missing)
                   /\ result.Missing = SelectSeq(required, Unsupplied)
                   /\ ~result.IsComplete
                   /\ PromptsForName(provider, result, result.Task)
        IN  Holds(provider.config.Intents[result.Task].Required)

\* a call has returned an intent that requires name for a text without a name:
\* name is the one missing field and the custom prompt for name is asked
C6_Witness ==
    /\ called
    /\ result.Task = "AddContact"
    /\ "name" \in Range(provider.config.Intents["AddContact"].Required)
    /\ KeywordsMatch(provider, text, "AddContact")
    /\ ~Supplied(result, "name")
    /\ result.Missing = <<"name">>
    /\ ~result.IsComplete
    /\ result.FollowUp = <<"Who is it? Give me a name.">>

\* C7: extractEntities never stores an empty placeholder: every key of the
\* returned entity map has a non-empty value, and an entity for which neither
\* the regex strategy yields a non-empty first capture group nor the keyword
\* strategy yields a value is absent from the map
C7_NoEmptyPlaceholder ==
    called =>
        /\ \A e \in DOMAIN EntitiesOf(result) : EntitiesOf(result)[e] # ""
        /\ \A e \in DOMAIN provider.config.Entities :
              RegexValue(provider, text, e) = "" /\ extractEntityByKeywords(text, e) = ""
              => e \notin DOMAIN EntitiesOf(result)

\* the provider with one entity as its only configured entity
Alone(p, entityName) ==
    [p EXCEPT !.config.Entities = [e \in {entityName} |-> p.config.Entities[entityName]],
              !.compiled.EntityRegexes =
                  [e \in {entityName} |-> p.compiled.EntityRegexes[entityName]]]

\* what extractEntities yields for a text when the entity is the only one
OwnEntities(p, t, entityName) ==
    extractEntities(Alone(p, entityName), t,
                    IF entityName \in {"name", "title"} THEN <<>> ELSE <<entityName>>)

\* C8: the value extracted for an entity depends only on the text and on that
\* entity's own definition: it is present exactly when it is present with the
\* entity configured alone, and then has the same value, whatever the other
\* entities are and whether or not they are extracted
C8_EntitiesIndependent ==
    called =>
        \A e \in DOMAIN provider.config.Entities :
            LET Same(entities, own) ==
                    /\ (e \in DOMAIN entities) = (e \in DOMAIN own)
                    /\ e \in DOMAIN own => entities[e] = own[e]
            IN  Same(EntitiesOf(result), OwnEntities(provider, text, e))

\* a call on a text with an anchored phone token and an email has returned both
C8_Witness ==
    /\ called
    /\ text = "phone 555-123-4567 email alice@example.com"
    /\ {"phone", "email"} \subseteq DOMAIN EntitiesOf(result)
    /\ EntitiesOf(result)["phone"] = "555-123-4567"
    /\ EntitiesOf(result)["email"] = "alice@example.com"

\* whether every pattern list of an intent is empty
AllEmpty(intent) ==
    Len(intent.Keywords) = 0 /\ Len(intent.Phrases) = 0 /\ Len(intent.Regex) = 0

\* C9: LoadIntentConfig returns an error and no configuration for a
\* configuration with an intent whose keywords, phrases and regex lists are all
\* empty, so the constructor fails on such a file, and a provider built from a
\* loaded file has no such intent to score
C9_EmptyIntentRejected ==
    /\ file.readable /\ file.wellFormed
       /\ (\E i \in DOMAIN file.config.Intents : AllEmpty(file.config.Intents[i]))
       => /\ \A order \in Orders(DOMAIN file.config.Intents) :
                LET Rejected(loaded) == ~loaded.err.isNil /\ loaded.config = NilConfig
                IN  Rejected(LoadIntentConfig(file, order))
          /\ configPath # "" /\ pc # "start"
                => pc = "failed" /\ provider = NilProvider /\ ~err.isNil
    /\ pc = "ready" /\ configPath # ""
       => \A i \in DOMAIN provider.config.Intents : ~AllEmpty(provider.config.Intents[i])

\* the constructor has failed to load a file whose only defect is an intent
\* without keywords, phrases and regex
C9_Witness ==
    /\ pc = "failed"
    /\ provider = NilProvider
    /\ \E i \in DOMAIN file.config.Intents : AllEmpty(file.config.Intents[i])
    /\ \A i \in DOMAIN file.config.Intents : file.config.Intents[i].Description # ""
    /\ err.msg = "failed to load config from configs/notes.json: invalid config: "
                    \o "intent Idle: must have at least keywords, phrases, or regex"

\* the intents and the entities of a configuration with a regular expression
\* that does not compile
Uncompilable(patterns) == {k \in 1..Len(patterns) : ~regexpCompile(patterns[k]).ok}
BadIntents(c) == {i \in DOMAIN c.Intents : Uncompilable(c.Intents[i].Regex) # {}}
BadEntities(c) == {e \in DOMAIN c.Entities : Uncompilable(c.Entities[e].Regex) # {}}

\* C10: if an intent or entity regex fails to compile, compileConfig returns an
\* error naming an offending intent or entity and no CompiledConfig, and
\* NewEnhancedLocalProvider returns no provider; a provider that exists has
\* every pattern of its configuration compiled
C10_CompileAllOrNothing ==
    /\ pc # "start" /\ (BadIntents(LoadedIntents) \cup BadEntities(LoadedIntents)) # {}
       /\ (\A order \in Orders(DOMAIN LoadedIntents.Intents) :
                configPath # "" => LoadIntentConfig(file, order).err.isNil)
       => /\ \A io \in Orders(DOMAIN LoadedIntents.Intents),
                eo \in Orders(DOMAIN LoadedIntents.Entities),
                so \in Orders(DOMAIN LoadedIntents.Synonyms) :
                LET Refused(built) == ~built.err.isNil /\ built.compiled = NilCompiled
                IN  Refused(compileConfig(LoadedIntents, io, eo, so))
          /\ pc = "failed" /\ provider = NilProvider /\ ~err.isNil
          /\ \/ \E i \in BadIntents(LoadedIntents) :
                    Contains(err.msg, "invalid regex for intent " \o i \o ":")
             \/ \E e \in BadEntities(LoadedIntents) :
                    Contains(err.msg, "invalid regex for entity " \o e \o ":")
    /\ pc = "ready"
       => /\ BadIntents(provider.config) \cup BadEntities(provider.config) = {}
          /\ \A i \in DOMAIN provider.config.Intents :
                Len(provider.compiled.IntentRegexes[i]) = Len(provider.config.Intents[i].Regex)
          /\ \A e \in DOMAIN provider.config.Entities :
                Len(provider.compiled.EntityRegexes[e]) = Len(provider.config.Entities[e].Regex)

\* the constructor has failed on a valid configuration whose entity count has
\* one expression that compiles and one that does not
C10_Witness ==
    /\ pc = "failed"
    /\ provider = NilProvider
    /\ BadIntents(LoadedIntents) = {}
    /\ BadEntities(LoadedIntents) = {"count"}
    /\ err.msg = "failed to compile config: invalid regex for entity count: "
                    \o "error parsing regexp"

\* C11: with an empty configuration path NewEnhancedLocalProvider always
\* succeeds: the built-in default configuration has two intents and three
\* entities, passes every rule of Validate in every iteration order, every
\* regex in it compiles, and the constructor returns a provider holding it
C11_DefaultAlwaysConstructs ==
    /\ Cardinality(DOMAIN GetDefaultConfig.Intents) = 2
    /\ Cardinality(DOMAIN GetDefaultConfig.Entities) = 3
    /\ \A order \in Orders(DOMAIN GetDefaultConfig.Intents) :
          Validate(GetDefaultConfig, order) = NilError
    /\ BadIntents(GetDefaultConfig) \cup BadEntities(GetDefaultConfig) = {}
    /\ configPath = "" /\ pc # "start"
       => /\ pc = "ready"
          /\ err = NilError
          /\ provider # NilProvider
          /\ provider.config = GetDefaultConfig
          /\ provider.configPath = ""

\* the constructor has returned a provider for the empty path
C11_Witness ==
    /\ configPath = ""
    /\ pc = "ready"
    /\ err = NilError
    /\ DOMAIN provider.config.Intents = {"CREATE_CONTACT", "FIND_CONTACT"}
    /\ DOMAIN provider.compiled.EntityRegexes = {"name", "email", "phone"}

\* C12: for every ExtractIntent result whose task is not UNKNOWN, IsComplete is
\* true iff Missing is empty; for task UNKNOWN the completion step does not
\* run: Missing and FollowUp are empty and IsComplete is false
C12_CompleteIffNothingMissing ==
    called =>
        /\ result.Task # "UNKNOWN" => (result.IsComplete <=> Len(result.Missing) = 0)
        /\ result.Task = "UNKNOWN"
           => Len(result.Missing) = 0 /\ Len(result.FollowUp) = 0 /\ ~result.IsComplete

\* a call has returned an intent with required fields of which one is missing
\* and one is supplied
C12_Witness ==
    /\ called
    /\ result.Task = "CreateNote"
    /\ provider.config.Intents["CreateNote"].Required = <<"title", "date">>
    /\ Supplied(result, "title")
    /\ result.Missing = <<"date">>
    /\ ~result.IsComplete

\* C16: against the default configuration the text "create a new contact named
\* bob" is classified as CREATE_CONTACT and the extracted name is "bob"
C16_CreateContactNamedBob ==
    called /\ configPath = "" /\ text = "create a new contact named bob" =>
        /\ result.Task = "CREATE_CONTACT"
        /\ "name" \in DOMAIN EntitiesOf(result)
        /\ EntitiesOf(result)["name"] = "bob"

\* the call on "create a new contact named bob" has returned on the default
\* configuration, the name coming from the case-insensitive name regex
C16_Witness ==
    /\ called
    /\ configPath = ""
    /\ text = "create a new contact named bob"
    /\ result.Task = "CREATE_CONTACT"
    /\ RegexValue(provider, text, "name") = "bob"
    /\ result.Vars["name"] = StringValue("bob")

\* C17: against the default configuration the text "find contact alice" is
\* classified as FIND_CONTACT and the extracted name is "alice": a lower-case
\* word after the anchor word contact is accepted as the name
C17_FindContactAlice ==
    called /\ configPath = "" /\ text = "find contact alice" =>
        /\ result.Task = "FIND_CONTACT"
        /\ "name" \in DOMAIN EntitiesOf(result)
        /\ EntitiesOf(result)["name"] = "alice"

(***************************************************************************)
(* internal/models/intent.go                                               *)
(***************************************************************************)
\* a map[string]interface{} that may be nil: the nil map, and make(...) with entries
NilVars == [isNil |-> TRUE, entries |-> EmptyMap]
MakeVars(entries) == [isNil |-> FALSE, entries |-> entries]

\* a check that only reports an empty task
ValidateTaskOnly(i) ==
    IF i.Task = "" THEN [intent |-> i, err |-> Errorf("task is required")]
    ELSE [intent |-> i, err |-> NilError]

\* (*Intent).Validate: the intent as the call leaves it, and the error returned
IntentValidate(i) ==
    IF i.Task = "" THEN [intent |-> i, err |-> Errorf("task is required")]
    ELSE IF i.Vars.isNil
         THEN [intent |-> [i EXCEPT !.Vars = MakeVars(EmptyMap)], err |-> NilError]
         ELSE [intent |-> i, err |-> NilError]

\* models.NormalizeText
NormalizeText(raw) == Join(Fields(ToLower(TrimSpace(raw))), " ")

(***************************************************************************)
(* The functions applied on their own to bounded inputs                    *)
(***************************************************************************)
\* the longest text given to the normalizations
MaxLen == 3

\* the characters the texts are made of: letters of both cases, white space,
\* punctuation that is replaced and punctuation that is kept, a symbol
TextAlphabet == {"A", "b", " ", "\t", "\n", ",", "-", "$"}

\* the texts over TextAlphabet of a given length
RECURSIVE TextsOfLen(_)
TextsOfLen(n) ==
    IF n = 0 THEN {""} ELSE {t \o c : t \in TextsOfLen(n - 1), c \in TextAlphabet}

ShortTexts == UNION {TextsOfLen(n) : n \in 0..MaxLen}

\* the intents given to Validate
ValidateInputs ==
    {Intent(task, v, missing, <<>>, isComplete) :
        task \in {"", "CREATE_CONTACT", "UNKNOWN"},
        v \in {NilVars, MakeVars(EmptyMap),
               MakeVars([k \in {"name"} |-> StringValue("bob")]),
               MakeVars([k \in {"name", "confidence"} |->
                            IF k = "name" THEN StringValue("") ELSE FloatValue(One)])},
        missing \in {<<>>, <<"name">>},
        isComplete \in BOOLEAN}

\* the values of the provider's variables while the functions are applied
NoProvider ==
    /\ configPath = ""
    /\ file = File(FALSE, FALSE, NilConfig)
    /\ pc = "start"
    /\ provider = NilProvider
    /\ err = NilError
    /\ text = ""
    /\ called = FALSE
    /\ intentOrder = <<>>
    /\ result = NilIntent

FunctionsInit ==
    /\ NoProvider
    /\ NoService
    /\ NoCalls
    /\ fn = "none"
    /\ \/ \E t \in ShortTexts : input = [kind |-> "text", text |-> t, intent |-> NilIntent]
       \/ \E i \in ValidateInputs : input = [kind |-> "intent", text |-> "", intent |-> i]
    /\ output = [text |-> "", intent |-> NilIntent, err |-> NilError]

\* p.normalizeText(input) returns
ApplyNormalizeText ==
    /\ fn = "none" /\ input.kind = "text"
    /\ fn' = "normalizeText"
    /\ output' = [text |-> normalizeText(input.text), intent |-> NilIntent, err |-> NilError]
    /\ UNCHANGED <<input, providerVars, serviceVars, callVars>>

\* the output of normalizeText is normalized again
ApplyNormalizeTextAgain ==
    /\ fn = "normalizeText"
    /\ fn' = "normalizeTextAgain"
    /\ output' = [output EXCEPT !.text = normalizeText(output.text)]
    /\ UNCHANGED <<input, providerVars, serviceVars, callVars>>

\* models.NormalizeText(input) returns
ApplyModelsNormalizeText ==
    /\ fn = "none" /\ input.kind = "text"
    /\ fn' = "NormalizeText"
    /\ output' = [text |-> NormalizeText(input.text), intent |-> NilIntent, err |-> NilError]
    /\ UNCHANGED <<input, providerVars, serviceVars, callVars>>

\* input.Validate() returns; output.intent is the intent as the call leaves it
ApplyValidate ==
    /\ fn = "none" /\ input.kind = "intent"
    /\ fn' = "Validate"
    /\ LET Return(validated) ==
            output' = [text |-> "", intent |-> validated.intent, err |-> validated.err]
       IN  Return(IntentValidate(input.intent))
    /\ UNCHANGED <<input, providerVars, serviceVars, callVars>>

FunctionsNext ==
    ApplyNormalizeText \/ ApplyNormalizeTextAgain \/ ApplyModelsNormalizeText \/ ApplyValidate

FunctionsSpec == FunctionsInit /\ [][FunctionsNext]_vars

(***************************************************************************)
(* Text normalization                                                      *)
(***************************************************************************)
\* white space only as single spaces between words
SingleSpaced(s) ==
    \A i \in 1..Len(s) :
        Char(s, i) \in SpaceSet =>
            /\ Char(s, i) = " "
            /\ 1 < i /\ i < Len(s)
            /\ Char(s, i + 1) \notin SpaceSet

NoUpperCase(s) == \A i \in 1..Len(s) : Char(s, i) \notin UpperSet

\* the punctuation of unicode.IsPunct other than @ . _ - does not occur
OnlyKeptPunctuation(s) ==
    \A i \in 1..Len(s) :
        Char(s, i) \notin CharsOf("!\"#%&'()*,/:;?[\\]{}")

\* the characters outside white space, in order
RECURSIVE Unspaced(_, _)
Unspaced(s, i) ==
    IF i > Len(s) THEN ""
    ELSE IF Char(s, i) \in SpaceSet THEN Unspaced(s, i + 1)
    ELSE Char(s, i) \o Unspaced(s, i + 1)

\* the number of maximal runs of white space with a word on both sides
InnerRuns(s) ==
    Cardinality({i \in 2..Len(s) :
                    /\ Char(s, i) \in SpaceSet
                    /\ Char(s, i - 1) \notin SpaceSet
                    /\ \E j \in (i + 1)..Len(s) : Char(s, j) \notin SpaceSet})

C19_ValidateTaskRequired ==
    fn = "Validate" =>
        /\ ~output.err.isNil <=> input.intent.Task = ""
        /\ output.err.isNil /\ input.intent.Vars.isNil =>
               output.intent = [input.intent EXCEPT !.Vars = [isNil |-> FALSE, entries |-> EmptyMap]]
        /\ output.err.isNil /\ ~input.intent.Vars.isNil => output.intent = input.intent
        /\ ~output.err.isNil => output.intent = input.intent

\* Validate succeeded on an intent with a task and a nil Vars
C19_Witness ==
    /\ fn = "Validate"
    /\ input.intent.Task = "CREATE_CONTACT"
    /\ input.intent.Vars.isNil
    /\ output.err.isNil
    /\ ~output.intent.Vars.isNil

(***************************************************************************)
(* internal/services: LocalAIProvider                                      *)
(***************************************************************************)
\* p.intentKeywords
LocalIntentKeywords ==
    [i \in {"CREATE_CONTACT", "FIND_CONTACT", "UPDATE_CONTACT", "DELETE_CONTACT"} |->
        CASE i = "CREATE_CONTACT" -> <<"create", "add", "new", "insert", "save", "store">>
          [] i = "FIND_CONTACT" -> <<"find", "search", "look", "locate", "get">>
          [] i = "UPDATE_CONTACT" -> <<"update", "change", "modify", "edit", "alter">>
          [] OTHER -> <<"delete", "remove", "drop", "erase", "clear">>]

\* p.enhancedPatterns
LocalPatterns ==
    [k \in {"email", "phone", "name"} |->
        CASE k = "email" ->
               regexpCompile("(?i)([a-zA-Z0-9._%+-]+@[a-zA-Z0-9.-]+\\.[a-zA-Z]{2,})").re
          [] k = "phone" ->
               regexpCompile("(?i)(\\+\\d{1,3}[-.\\s]?)?\\(?\\d{3}\\)?[-.\\s]?\\d{3}[-.\\s]?\\d{4}").re
          [] OTHER ->
               regexpCompile("(?i)(?:named\\s+|name\\s+is\\s+|call(?:ed)?\\s+)([A-Z][a-z]+(?:\\s+[A-Z][a-z]+)*)").re]

\* (*LocalAIProvider).classifyIntent: the scores are scanned in the order the
\* map yields them and only a strictly higher score replaces the best one
RECURSIVE LocalBest(_, _, _, _, _)
LocalBest(scores, order, i, maxScore, bestIntent) ==
    IF i > Len(order) THEN bestIntent
    ELSE IF scores[order[i]] > maxScore
         THEN LocalBest(scores, order, i + 1, scores[order[i]], order[i])
         ELSE LocalBest(scores, order, i + 1, maxScore, bestIntent)

LocalClassifyIntent(raw, order) ==
    LET Score(lowered, i) ==
            Cardinality({k \in 1..Len(LocalIntentKeywords[i]) :
                            Contains(lowered, LocalIntentKeywords[i][k])})
        Scores(lowered) == [i \in DOMAIN LocalIntentKeywords |-> Score(lowered, i)]
    IN  LocalBest(Scores(ToLower(raw)), order, 1, 0, "UNKNOWN")

\* (*LocalAIProvider).isCommonWord
CommonWords ==
    {"the", "and", "or", "but", "in", "on", "at", "to", "for", "of", "with", "by", "from",
     "up", "about", "into", "through", "during", "before", "after", "above", "below",
     "between", "among", "within", "without", "contact", "person", "email", "phone",
     "name", "create", "add", "new", "find", "search", "update", "delete", "remove",
     "modify", "change", "edit", "save", "store"}

isCommonWord(word) == ToLower(word) \in CommonWords

\* (*LocalAIProvider).extractEntities
LocalExtractEntities(raw) ==
    LET Capitalized(words) ==
            {k \in 1..Len(words) :
                /\ Len(words[k]) > 1
                /\ Char(words[k], 1) \in UpperSet
                /\ ~isCommonWord(words[k])}
        Fallback(words) ==
            IF Capitalized(words) = {} THEN EmptyMap
            ELSE [e \in {"name"} |-> words[MinOf(Capitalized(words))]]
        Named(m) == IF Len(m) > 1 THEN [e \in {"name"} |-> m[2]] ELSE Fallback(Fields(raw))
        Found(k, m) == IF Len(m) > 1 THEN [e \in {k} |-> m[2]] ELSE EmptyMap
        Merge(email, phone, name) ==
            [e \in DOMAIN email \cup DOMAIN phone \cup DOMAIN name |->
                IF e = "email" THEN email[e] ELSE IF e = "phone" THEN phone[e] ELSE name[e]]
    IN  Merge(Found("email", FindStringSubmatch(LocalPatterns["email"], raw)),
              Found("phone", FindStringSubmatch(LocalPatterns["phone"], raw)),
              Named(FindStringSubmatch(LocalPatterns["name"], raw)))

\* (*LocalAIProvider).ExtractIntent: name, email and phone are always set
LocalExtractIntent(raw, order) ==
    LET Build(task, entities) ==
            Intent(task,
                   [k \in {"name", "email", "phone"} |-> StringValue(MapGet(entities, k, ""))],
                   <<>>, <<>>, FALSE)
    IN  Build(LocalClassifyIntent(ToLower(TrimSpace(raw)), order), LocalExtractEntities(raw))

(***************************************************************************)
(* internal/services: provider factory and IntentService                   *)
(***************************************************************************)
\* NewOpenAIProvider: the kind of provider returned and the error
NewOpenAIProvider(e) ==
    IF e.OPENAI_API_KEY = ""
    THEN [kind |-> "none", err |-> Errorf("OpenAI API key is required")]
    ELSE [kind |-> "openai", err |-> NilError]

\* NewOllamaProvider: fails unless the Ollama server answers the health check
NewOllamaProvider(e) ==
    IF ~e.ollama
    THEN [kind |-> "none", err |-> Errorf("Ollama not available at http://localhost:11434")]
    ELSE [kind |-> "ollama", err |-> NilError]

\* (*AIProviderFactory).CreateProvider; enhanced is what
\* NewEnhancedLocalProvider(INTENT_CONFIG_PATH) returns in this environment
CreateProvider(e, enhanced) ==
    CASE e.AI_PROVIDER = "openai" -> NewOpenAIProvider(e)
      [] e.AI_PROVIDER = "ollama" -> NewOllamaProvider(e)
      [] e.AI_PROVIDER = "local" -> [kind |-> "local", err |-> NilError]
      [] e.AI_PROVIDER = "enhanced_local" ->
            [kind |-> IF enhanced.err.isNil THEN "enhanced_local" ELSE "none",
             err |-> enhanced.err]
      [] OTHER -> NewOpenAIProvider(e)

\* a list of available providers that starts with the basic provider
GetAvailableProvidersLocalFirst(e, enhanced) ==
    <<"local">>
    \o (IF NewOpenAIProvider(e).err.isNil THEN <<"openai">> ELSE <<>>)
    \o (IF NewOllamaProvider(e).err.isNil THEN <<"ollama">> ELSE <<>>)
    \o (IF enhanced.err.isNil THEN <<"enhanced_local">> ELSE <<>>)

\* (*AIProviderFactory).GetAvailableProviders, in the order they are appended
GetAvailableProviders(e, enhanced) ==
    (IF NewOpenAIProvider(e).err.isNil THEN <<"openai">> ELSE <<>>)
    \o (IF NewOllamaProvider(e).err.isNil THEN <<"ollama">> ELSE <<>>)
    \o (IF enhanced.err.isNil THEN <<"enhanced_local">> ELSE <<>>)
    \o <<"local">>

\* NewIntentService: the provider the service holds, and the error of
\* CreateProvider, which the constructor drops
NewIntentService(e, enhanced) ==
    LET Fallback(available) ==
            IF Len(available) > 0 THEN available[1] ELSE "local"
        Chosen(created) ==
            IF ~created.err.isNil
            THEN [aiProvider |-> Fallback(GetAvailableProviders(e, enhanced)),
                  err |-> created.err]
            ELSE [aiProvider |-> created.kind, err |-> NilError]
    IN  Chosen(CreateProvider(e, enhanced))

\* s.patterns
ServicePatterns ==
    [k \in {"create_contact", "find_contact", "update_contact", "delete_contact"} |->
        CASE k = "create_contact" ->
               regexpCompile("(?i)(create|add|new)\\s+(?:contact|person)\\s+(?:named\\s+)?([a-zA-Z]+)(?:\\s+with\\s+email\\s+([^\\s]+))?").re
          [] k = "find_contact" ->
               regexpCompile("(?i)(find|search|look\\s+for)\\s+(?:contact\\s+)?([a-zA-Z]+)").re
          [] k = "update_contact" ->
               regexpCompile("(?i)(update|change|modify)\\s+(?:contact\\s+)?([a-zA-Z]+)").re
          [] OTHER ->
               regexpCompile("(?i)(delete|remove|drop)\\s+(?:contact\\s+)?([a-zA-Z]+)").re]

\* (*IntentService).buildIntentFromMatches
buildIntentFromMatches(intentType, matches) ==
    LET Name == IF Len(matches) > 2 THEN [k \in {"name"} |-> StringValue(matches[3])]
                ELSE EmptyMap
        Email == IF Len(matches) > 3 /\ matches[4] # "" THEN matches[4] ELSE ""
        Contact(name) ==
            [k \in DOMAIN name \cup {"email", "phone"} |->
                CASE k = "email" -> StringValue(Email)
                  [] k = "phone" -> StringValue("")
                  [] OTHER -> name[k]]
    IN  Intent(ToUpper(intentType),
               IF intentType = "create_contact" THEN Contact(Name) ELSE Name,
               <<>>, <<>>, FALSE)

\* (*IntentService).extractWithPatterns: the first pattern, in the order the
\* map yields them, that matches
RECURSIVE extractWithPatterns(_, _, _)
extractWithPatterns(normalized, order, i) ==
    IF i > Len(order) THEN [found |-> FALSE, intent |-> NilIntent]
    ELSE LET Try(matches) ==
                 IF Len(matches) > 0
                 THEN [found |-> TRUE, intent |-> buildIntentFromMatches(order[i], matches)]
                 ELSE extractWithPatterns(normalized, order, i + 1)
         IN  Try(FindStringSubmatch(ServicePatterns[order[i]], normalized))

(***************************************************************************)
(* The service: NewIntentService, then requests                            *)
(***************************************************************************)
\* the process environments the service is started in; revision says which of
\* the two definitions of (*IntentService).ExtractIntent in the source is built
ProcessEnv(provider_, key, ollama_) ==
    [AI_PROVIDER |-> provider_, OPENAI_API_KEY |-> key, ollama |-> ollama_]

ServiceEnvironments ==
    {[AI_PROVIDER |-> e.AI_PROVIDER, OPENAI_API_KEY |-> e.OPENAI_API_KEY,
      ollama |-> e.ollama, revision |-> r] :
        e \in {ProcessEnv("enhanced_local", "", FALSE),
                ProcessEnv("enhanced_local", "sk-test", TRUE),
                ProcessEnv("openai", "sk-test", FALSE),
                ProcessEnv("openai", "", TRUE),
                ProcessEnv("ollama", "", TRUE),
                ProcessEnv("ollama", "", FALSE),
                ProcessEnv("local", "", FALSE),
                ProcessEnv("mistral", "", FALSE)},
        r \in {"patterns first", "provider only"}}

\* INTENT_CONFIG_PATH and the file it names
ServiceConfigs ==
    {[configPath |-> "", file |-> File(FALSE, FALSE, NilConfig)],
     [configPath |-> "configs/notes.json", file |-> File(FALSE, FALSE, NilConfig)],
     [configPath |-> "configs/notes.json", file |-> File(TRUE, FALSE, NilConfig)]}

\* the texts of the requests
RequestTexts ==
    { "add contact Bob",
      " Add  person Al with email A@B.io ",
      "find new contact Bob",
      "ring Bob now" }

\* what a provider behind a network (OpenAI, Ollama) may answer
ExternalAnswers ==
    {[intent |-> NilIntent, err |-> Errorf("failed to call provider")],
     [intent |-> Intent("UNKNOWN", EmptyMap, <<>>, <<>>, FALSE), err |-> NilError],
     [intent |-> Intent("CREATE_CONTACT", [k \in {"name"} |-> StringValue("bob")],
                        <<>>, <<>>, FALSE),
      err |-> NilError]}

PatternOrders == Orders(DOMAIN ServicePatterns)

ServiceInit ==
    /\ NoFunction
    /\ NoCalls
    /\ environ \in ServiceEnvironments
    /\ \E c \in ServiceConfigs : configPath = c.configPath /\ file = c.file
    /\ pc = "start"
    /\ provider = NilProvider
    /\ aiProvider = "none"
    /\ err = NilError
    /\ serveErr = NilError
    /\ text = ""
    /\ called = FALSE
    /\ intentOrder = <<>>
    /\ result = NilIntent

\* the provider CreateProvider returns without reading INTENT_CONFIG_PATH
CreatedDirectly ==
    CreateProvider(environ, [provider |-> NilProvider, err |-> NilError])

\* main: NewIntentService() returns and the server starts listening;
\* NewEnhancedLocalProvider is only called when AI_PROVIDER is enhanced_local
\* or when the configured provider could not be created
StartService ==
    /\ pc = "start"
    /\ pc' = "listening"
    /\ \/ /\ environ.AI_PROVIDER # "enhanced_local"
          /\ CreatedDirectly.err.isNil
          /\ aiProvider' = CreatedDirectly.kind
          /\ err' = NilError
          /\ provider' = NilProvider
       \/ /\ environ.AI_PROVIDER = "enhanced_local" \/ ~CreatedDirectly.err.isNil
          /\ \E vo \in IF configPath = "" THEN {<<>>}
                          ELSE Orders(DOMAIN LoadedIntents.Intents),
                io \in Orders(DOMAIN LoadedIntents.Intents),
                eo \in Orders(DOMAIN LoadedIntents.Entities),
                so \in Orders(DOMAIN LoadedIntents.Synonyms) :
                  LET Return(enhanced, service) ==
                          /\ aiProvider' = service.aiProvider
                          /\ err' = service.err
                          /\ provider' = IF service.aiProvider = "enhanced_local"
                                         THEN enhanced.provider ELSE NilProvider
                      Build(enhanced) == Return(enhanced, NewIntentService(environ, enhanced))
                  IN  Build(NewEnhancedLocalProvider(configPath, file, vo, io, eo, so))
    /\ UNCHANGED <<configPath, file, text, called, intentOrder, result>>
    /\ UNCHANGED <<environ, serveErr, functionVars, callVars>>

\* a request with a text arrives
ReceiveRequest ==
    /\ pc \in {"listening", "served"}
    /\ pc' = "ready"
    /\ \E t \in RequestTexts \ {text} : text' = t
    /\ called' = FALSE
    /\ intentOrder' = <<>>
    /\ result' = NilIntent
    /\ serveErr' = NilError
    /\ UNCHANGED <<configPath, file, provider, err>>
    /\ UNCHANGED <<environ, aiProvider, functionVars, callVars>>

\* s.aiProvider.ExtractIntent(ctx, normalized)
AskProvider(normalized) ==
    \/ /\ aiProvider = "enhanced_local"
       /\ \E io \in Orders(DOMAIN provider.config.Intents),
             eo \in Orders(DOMAIN provider.config.Entities \ {"name", "title"}) :
               /\ intentOrder' = io
               /\ result' = ExtractIntent(provider, normalized, io, eo)
       /\ serveErr' = NilError
    \/ /\ aiProvider = "local"
       /\ \E lo \in Orders(DOMAIN LocalIntentKeywords) :
               result' = LocalExtractIntent(normalized, lo)
       /\ serveErr' = NilError
       /\ intentOrder' = <<>>
    \/ /\ aiProvider \in {"openai", "ollama"}
       /\ \E answer \in ExternalAnswers :
               /\ result' = answer.intent
               /\ serveErr' = answer.err
       /\ intentOrder' = <<>>

\* (*IntentService).ExtractIntent(ctx, text) is called and returns
Serve ==
    /\ pc = "ready"
    /\ pc' = "served"
    /\ \/ /\ environ.revision = "patterns first"
          /\ \E po \in PatternOrders :
                LET Hit(h) == h.found /\ result' = h.intent
                IN  Hit(extractWithPatterns(NormalizeText(text), po, 1))
          /\ called' = FALSE
          /\ serveErr' = NilError
          /\ intentOrder' = <<>>
       \/ /\ \/ environ.revision = "provider only"
             \/ \A k \in DOMAIN ServicePatterns :
                    ~MatchString(ServicePatterns[k], NormalizeText(text))
          /\ called' = TRUE
          /\ AskProvider(NormalizeText(text))
    /\ UNCHANGED <<configPath, file, provider, err, text>>
    /\ UNCHANGED <<environ, aiProvider, functionVars, callVars>>

ServiceNext == StartService \/ ReceiveRequest \/ Serve

ServiceSpec == ServiceInit /\ [][ServiceNext]_vars

(***************************************************************************)
(* Properties of the service                                               *)
(***************************************************************************)
\* C13: when a request is answered by the EnhancedLocalProvider behind
\* IntentService.ExtractIntent, the entities of the answer are those that
\* extractEntities finds in the caller's original text, case and punctuation
\* preserved
C13_EntitiesFromOriginalText ==
    pc = "served" /\ called /\ aiProvider = "enhanced_local" =>
        \E eo \in Orders(DOMAIN provider.config.Entities \ {"name", "title"}) :
            EntitiesOf(result) = extractEntities(provider, text, eo)

\* the configured source of the enhanced provider cannot be read or parsed
BadSource ==
    /\ environ.AI_PROVIDER = "enhanced_local"
    /\ configPath # ""
    /\ ~file.readable \/ ~file.wellFormed

\* C15: when the configured configuration source is unreadable or not valid
\* JSON, startup aborts: the service holds no provider and never listens for
\* or serves a request
C15_BadSourceAbortsStartup ==
    BadSource => aiProvider = "none" /\ pc = "start"

\* the keys of the patterns that match a normalized text
MatchingPatterns(normalized) ==
    {k \in DOMAIN ServicePatterns : MatchString(ServicePatterns[k], normalized)}

\* the answer built from pattern k: the upper-cased key, the captured word as
\* name, and for create_contact always an email and a phone
AnswerOfPattern(intent, k, normalized) ==
    /\ intent.Task = ToUpper(k)
    /\ "name" \in DOMAIN intent.Vars
    /\ intent.Vars["name"].str = FindStringSubmatch(ServicePatterns[k], normalized)[3]
    /\ k = "create_contact" => {"email", "phone"} \subseteq DOMAIN intent.Vars

\* C18: a served request was answered by the provider only if no pattern
\* matches the normalized text, and otherwise carries the answer of a matching
\* pattern
C18_PatternsBeforeProvider ==
    pc = "served" =>
        /\ called <=> MatchingPatterns(NormalizeText(text)) = {}
        /\ ~called => \E k \in MatchingPatterns(NormalizeText(text)) :
                          AnswerOfPattern(result, k, NormalizeText(text))

(***************************************************************************)
(* Concurrent callers of one EnhancedLocalProvider                         *)
(***************************************************************************)
\* the goroutines that call ExtractIntent on the shared provider
Callers == {1, 2}

\* the texts they pass
CallTexts == {"create a new contact named bob", "find contact Bob", "xyz zzz qqq"}

\* the local variables of a call of ExtractIntent and the statement it is at;
\* io and eo are the orders in which its map iterations ran
Call(at, raw, normalized, intentResult, entities, io, eo, built) ==
    [pc |-> at, text |-> raw, normalizedText |-> normalized, intentResult |-> intentResult,
     entities |-> entities, io |-> io, eo |-> eo, result |-> built]

NoCall == Call("idle", "", "", IntentResult("", Zero), EmptyMap, <<>>, <<>>, NilIntent)

\* a provider whose compiled state is reset by a call
ProviderReset(p, call) == [p EXCEPT !.compiled = NilCompiled]

\* the provider after a statement of ExtractIntent has run: no statement of
\* ExtractIntent, or of the methods it calls, assigns to a field of p
ProviderAfter(p, call) == p

ConcurrentInit ==
    /\ NoFunction
    /\ NoService
    /\ \/ configPath = "" /\ file = File(FALSE, FALSE, NilConfig)
       \/ configPath = "configs/tasks.json" /\ file = File(TRUE, TRUE, TasksConfig)
    /\ pc = "start"
    /\ provider = NilProvider
    /\ err = NilError
    /\ text = ""
    /\ called = FALSE
    /\ intentOrder = <<>>
    /\ result = NilIntent
    /\ calls = [c \in Callers |-> NoCall]
    /\ constructed = NilProvider

\* NewEnhancedLocalProvider returns the provider the callers share
ConstructShared ==
    /\ pc = "start"
    /\ \E vo \in IF configPath = "" THEN {<<>>} ELSE Orders(DOMAIN LoadedIntents.Intents),
          io \in Orders(DOMAIN LoadedIntents.Intents),
          eo \in Orders(DOMAIN LoadedIntents.Entities),
          so \in Orders(DOMAIN LoadedIntents.Synonyms) :
            LET Return(built) ==
                    /\ provider' = built.provider
                    /\ constructed' = built.provider
                    /\ err' = built.err
                    /\ pc' = IF built.err.isNil THEN "ready" ELSE "failed"
            IN  Return(NewEnhancedLocalProvider(configPath, file, vo, io, eo, so))
    /\ UNCHANGED <<configPath, file, text, called, intentOrder, result, calls>>
    /\ UNCHANGED <<functionVars, serviceVars>>

\* a statement of caller c's call: its local variables change, the provider is
\* left as the statement leaves it
Step(c, after) ==
    /\ calls' = [calls EXCEPT ![c] = after]
    /\ provider' = ProviderAfter(provider, calls[c])
    /\ UNCHANGED <<configPath, file, pc, err, text, called, intentOrder, result, constructed>>
    /\ UNCHANGED <<functionVars, serviceVars>>

\* caller c calls p.ExtractIntent(ctx, text)
BeginCall(c) ==
    /\ pc = "ready" /\ calls[c].pc = "idle"
    /\ \E t \in CallTexts : Step(c, [NoCall EXCEPT !.pc = "normalize", !.text = t])

\* normalizedText := p.normalizeText(text)
NormalizeStep(c) ==
    /\ calls[c].pc = "normalize"
    /\ Step(c, [calls[c] EXCEPT !.pc = "classify",
                                !.normalizedText = normalizeText(calls[c].text)])

\* intentResult := p.classifyIntent(normalizedText)
ClassifyStep(c) ==
    /\ calls[c].pc = "classify"
    /\ \E io \in Orders(DOMAIN provider.config.Intents) :
          Step(c, [calls[c] EXCEPT
                     !.pc = "extract", !.io = io,
                     !.intentResult = classifyIntent(provider, calls[c].normalizedText, io)])

\* entities := p.extractEntities(text)
ExtractStep(c) ==
    /\ calls[c].pc = "extract"
    /\ \E eo \in Orders(DOMAIN provider.config.Entities \ {"name", "title"}) :
          Step(c, [calls[c] EXCEPT
                     !.pc = "build", !.eo = eo,
                     !.entities = extractEntities(provider, calls[c].text, eo)])

\* result is built from the entities and the confidence
BuildStep(c) ==
    /\ calls[c].pc = "build"
    /\ Step(c, [calls[c] EXCEPT
                  !.pc = "complete",
                  !.result = Intent(calls[c].intentResult.Intent,
                                    MapPut([e \in DOMAIN calls[c].entities |->
                                               StringValue(calls[c].entities[e])],
                                           "confidence",
                                           FloatValue(calls[c].intentResult.Confidence)),
                                    <<>>, <<>>, FALSE)])

\* p.addMissingFieldsAndFollowUp(result, intentResult.Intent) unless UNKNOWN
CompleteStep(c) ==
    /\ calls[c].pc = "complete"
    /\ Step(c, [calls[c] EXCEPT
                  !.pc = "done",
                  !.result = IF calls[c].intentResult.Intent # "UNKNOWN"
                             THEN addMissingFieldsAndFollowUp(provider, calls[c].result,
                                                              calls[c].intentResult.Intent)
                             ELSE calls[c].result])

\* return result, nil: the caller may call again
ReturnStep(c) ==
    /\ calls[c].pc = "done"
    /\ Step(c, NoCall)

ConcurrentNext ==
    \/ ConstructShared
    \/ \E c \in Callers :
          \/ BeginCall(c)
          \/ NormalizeStep(c)
          \/ ClassifyStep(c)
          \/ ExtractStep(c)
          \/ BuildStep(c)
          \/ CompleteStep(c)
          \/ ReturnStep(c)

ConcurrentSpec == ConcurrentInit /\ [][ConcurrentNext]_vars

\* C14: however the calls of concurrent callers interleave, the provider's
\* config and compiled state stay as NewEnhancedLocalProvider returned them,
\* and the result of every finished call is the result ExtractIntent gives for
\* its text when run alone on that provider
C14_CallsOnlyReadProvider ==
    pc = "ready" =>
        /\ provider.config = constructed.config
        /\ provider.compiled = constructed.compiled
        /\ \A c \in Callers :
              calls[c].pc = "done" =>
                  calls[c].result =
                      ExtractIntent(constructed, calls[c].text, calls[c].io, calls[c].eo)

\* one caller has finished a call while the other is in the middle of a call
\* on another text
C14_Witness ==
    /\ calls[1].pc = "done"
    /\ calls[1].result.Task = "CREATE_CONTACT"
    /\ calls[2].pc = "extract"
    /\ calls[2].text = "find contact Bob"

(***************************************************************************)
(* Properties of the threshold and of the scan                             *)
(***************************************************************************)
\* C22: when the top-scoring intent has a positive boosted score and its
\* threshold (its entry in the confidence map, 0.5 when it has none) lies in
\* [0,1], 0 included, the intent is returned iff its score is at least that
\* threshold
C22_ConfiguredThresholdDecides ==
    called =>
        LET t == normalizeText(text)
            Decides(top, threshold) ==
                RatLeq(Zero, threshold) /\ RatLeq(threshold, One) =>
                    (result.Task = top <=> RatLeq(threshold, BoostedScore(provider, t, top)))
            Holds(high) ==
                RatLess(Zero, high) =>
                    Decides(Achiever(provider, t, intentOrder, high),
                            ConfiguredThreshold(provider,
                                                Achiever(provider, t, intentOrder, high)))
        IN  Holds(HighestBoosted(provider, t))

\* the candidate of classifyIntent before the threshold check
Candidate(p, t, order) == ScanIntents(p, t, order, 1, IntentResult("UNKNOWN", Zero))

\* C23: the candidate that reaches the threshold check has a boosted score at
\* least that of every configured intent; when it is an intent, its score is
\* positive and it is the first intent of the iteration order with that score;
\* a returned intent is that candidate, so an intent whose boosted score is at
\* most 0 is never returned
C23_FirstHighestIsCandidate ==
    called =>
        LET t == normalizeText(text)
            Holds(best) ==
                /\ \A i \in DOMAIN provider.config.Intents :
                      RatLeq(BoostedScore(provider, t, i), best.Confidence)
                /\ best.Intent # "UNKNOWN" =>
                      /\ RatLess(Zero, best.Confidence)
                      /\ best.Intent = Achiever(provider, t, intentOrder, best.Confidence)
                /\ best.Intent = "UNKNOWN" => best.Confidence = Zero
                /\ result.Task # "UNKNOWN" =>
                      /\ result.Task = best.Intent
                      /\ RatLess(Zero, BoostedScore(provider, t, result.Task))
        IN  Holds(Candidate(provider, t, intentOrder))

\* a call has returned the first visited of two intents whose boosted scores
\* tie at the top
C23_Witness ==
    /\ called
    /\ result.Task # "UNKNOWN"
    /\ result.Task = intentOrder[1]
    /\ \E j \in DOMAIN provider.config.Intents :
          /\ j # result.Task
          /\ BoostedScore(provider, normalizeText(text), j) =
                BoostedScore(provider, normalizeText(text), result.Task)

(***************************************************************************)
(* Properties of the construction of the service                           *)
(***************************************************************************)
\* what the environment offers: OpenAI needs an API key, Ollama a server that
\* answers, the enhanced provider a configuration it can load (the files of
\* ServiceConfigs fail by being unreadable or malformed)
OpenAIOk == environ.OPENAI_API_KEY # ""

OllamaOk == environ.ollama

EnhancedOk == configPath = "" \/ (file.readable /\ file.wellFormed)

\* the provider AI_PROVIDER asks for, and whether it can be constructed
ConfiguredKind ==
    IF environ.AI_PROVIDER \in {"openai", "ollama", "local", "enhanced_local"}
    THEN environ.AI_PROVIDER ELSE "openai"

ConfiguredOk ==
    CASE ConfiguredKind = "openai" -> OpenAIOk
      [] ConfiguredKind = "ollama" -> OllamaOk
      [] ConfiguredKind = "enhanced_local" -> EnhancedOk
      [] OTHER -> TRUE

\* C21: once NewIntentService has returned, the service holds a provider: the
\* configured one when it can be constructed, otherwise the first available
\* of OpenAI, Ollama, Enhanced Local, basic Local, so that the fallback is the
\* basic provider exactly when none of the other three is available; the list
\* of available providers is never empty
C21_ProviderAlwaysChosen ==
    pc # "start" =>
        /\ aiProvider # "none"
        /\ ConfiguredOk => aiProvider = ConfiguredKind
        /\ ~ConfiguredOk =>
              /\ aiProvider = IF OpenAIOk THEN "openai"
                              ELSE IF OllamaOk THEN "ollama"
                              ELSE IF EnhancedOk THEN "enhanced_local"
                              ELSE "local"
              /\ aiProvider = "local" <=> ~OpenAIOk /\ ~OllamaOk /\ ~EnhancedOk
        /\ \A e \in {NilError, Errorf("failed to load intent config")} :
              GetAvailableProviders(environ, [provider |-> NilProvider, err |-> e]) # <<>>

\* the service started on the basic provider because the configured enhanced
\* provider could not load its configuration and nothing else was available
C21_Witness ==
    /\ pc # "start"
    /\ environ.AI_PROVIDER = "enhanced_local"
    /\ ~ConfiguredOk
    /\ aiProvider = "local"

\* C30: a request answered by the patterns gets the same answer whatever the
\* order in which the map of patterns is iterated
C30_PatternAnswerIndependentOfOrder ==
    pc = "served" /\ ~called /\ serveErr.isNil =>
        \A po \in PatternOrders :
            extractWithPatterns(NormalizeText(text), po, 1).intent = result

(***************************************************************************)
(* A calendar domain, for the signals of the score and for the follow-ups  *)
(***************************************************************************)
\* two intents: Schedule has keywords with synonyms, two phrases and two
\* regexes that can match together, and follow-up templates of which several
\* name the same field; Cancel has no keywords, a required field with an empty
\* name and an empty first template; the entities confidence and room
CalendarConfig(priority, confidence) ==
    IntentConfig("calendar", "1.0",
        [i \in {"Schedule", "Cancel"} |->
            IF i = "Schedule"
            THEN IntentPattern("Schedule a meeting",
                    <<"schedule", "meeting", "invite">>,
                    <<"schedule a", "a meeting">>,
                    <<"^(schedule|plan)\\s", "meeting$">>,
                    priority, <<"room", "date", "confidence">>,
                    <<"room", "date", "confidence", "Topic", "agenda">>,
                    <<"Which room?", "What date and which room?", "On what DATE?",
                      "Any Topic?">>)
            ELSE IntentPattern("Cancel a meeting",
                    <<>>, <<"cancel">>, <<>>,
                    0, <<"room">>, <<"", "room">>,
                    <<"", "Which room to cancel?">>)],
        [e \in {"confidence", "room"} |->
            IF e = "confidence" THEN EntityPattern("number", <<"(\\d+)%">>, <<>>)
            ELSE EntityPattern("text", <<"room\\s+(\\w+)">>, <<>>)],
        [w \in {"schedule", "meeting"} |->
            IF w = "schedule" THEN <<"plan">> ELSE <<"sync", "call">>],
        confidence)

\* the priorities of Schedule and the confidence maps the calendar is tried with
CalendarVariants ==
    {[priority |-> p, confidence |-> c] :
        p \in {0, 2, -1},
        c \in {EmptyMap,
               [i \in {"Schedule"} |-> Rat(3, 10)],
               [i \in {"Schedule"} |-> Rat(3, 2)]}}

ScoringEnvironments ==
    {[configPath |-> "configs/calendar.json",
      file |-> File(TRUE, TRUE, CalendarConfig(v.priority, v.confidence))] :
        v \in CalendarVariants}

\* the texts given to ExtractIntent on the calendar
ScoringTexts ==
    { "schedule a meeting",
      "plan a sync in room B4, 90% sure",
      "   Schedule      a     Meeting   ",
      "schedule meeting with sync",
      "invite 50%",
      "cancel it",
      "cancel room B2",
      "hello" }

ScoringInit ==
    /\ NoFunction
    /\ NoService
    /\ NoCalls
    /\ \E e \in ScoringEnvironments : configPath = e.configPath /\ file = e.file
    /\ pc = "start"
    /\ provider = NilProvider
    /\ err = NilError
    /\ text = ""
    /\ called = FALSE
    /\ intentOrder = <<>>
    /\ result = NilIntent

\* the caller of the provider turns to another text
ScoringReceive ==
    /\ pc = "ready"
    /\ \E t \in ScoringTexts \ {text} : text' = t
    /\ called' = FALSE
    /\ intentOrder' = <<>>
    /\ result' = NilIntent
    /\ UNCHANGED <<configPath, file, pc, provider, err>>
    /\ UNCHANGED <<functionVars, serviceVars, callVars>>

ScoringNext == Construct \/ ScoringReceive \/ Extract

ScoringSpec == ScoringInit /\ [][ScoringNext]_vars

(***************************************************************************)
(* Properties of the score and of the follow-ups                           *)
(***************************************************************************)
\* C24: the confidence a call reports in Vars["confidence"] is a number, 0 when
\* the task is UNKNOWN and otherwise the least of 1 and the boosted score of
\* the returned intent; the candidate is accepted iff its boosted score, not
\* clamped to 1, reaches the threshold applied to it; this holds also when
\* the text yields an entity named confidence
C24_ReportedConfidence ==
    called =>
        LET t == normalizeText(text)
            Accepted(best) ==
                /\ best.Intent # "UNKNOWN"
                /\ RatLeq(Threshold(provider, best.Intent), best.Confidence)
            Holds(best) ==
                /\ result.Vars["confidence"].kind = "float64"
                /\ result.Task = "UNKNOWN" => ConfidenceOf(result) = Zero
                /\ result.Task # "UNKNOWN" =>
                      ConfidenceOf(result) =
                          MathMin(BoostedScore(provider, t, result.Task), One)
                /\ result.Task # "UNKNOWN" <=> Accepted(best)
                /\ Accepted(best) => result.Task = best.Intent
        IN  Holds(Candidate(provider, t, intentOrder))

\* a call whose text yields an entity named confidence has returned an intent
\* whose boosted score is above 1
C24_Witness ==
    /\ called
    /\ "confidence" \in DOMAIN provider.config.Entities
    /\ \E eo \in Orders({"confidence"}) :
          "confidence" \in DOMAIN extractEntities(provider, text, eo)
    /\ result.Task # "UNKNOWN"
    /\ RatLess(One, BoostedScore(provider, normalizeText(text), result.Task))
    /\ ConfidenceOf(result) = One

\* a - b
Minus(a, b) == RatAdd(a, RatMul(FromInt(-1), b))

\* the provider with the compiled regexes, phrases or keywords of one intent
\* taken away
WithoutRegexes(p, i) == [p EXCEPT !.compiled.IntentRegexes[i] = <<>>]

WithoutPhrases(p, i) == [p EXCEPT !.compiled.PhraseMap[i] = <<>>]

WithoutKeywords(p, i) == [p EXCEPT !.compiled.KeywordMap[i] = <<>>]

\* how many regexes of an intent match a text, how many of its phrases are
\* substrings of it
MatchingRegexes(p, i, t) ==
    Cardinality({k \in 1..Len(p.compiled.IntentRegexes[i]) :
                    MatchString(p.compiled.IntentRegexes[i][k], t)})

FoundPhrases(p, i, t) ==
    Cardinality({k \in 1..Len(p.config.Intents[i].Phrases) :
                    Contains(ToLower(t), ToLower(p.config.Intents[i].Phrases[k]))})

\* C25: in the score of every intent the regexes account for exactly 0.8 when
\* at least one of them matches the text and for 0 otherwise, the phrases for
\* exactly 0.6 when at least one is a substring and for 0 otherwise, however
\* many match; the score before the priority boost is at most 2.1
C25_RegexAndPhraseCountOnce ==
    called =>
        \A i \in DOMAIN provider.config.Intents :
            LET Score(p) == calculateIntentScore(p, normalizeText(text), i,
                                                 provider.config.Intents[i])
                Holds(score, t) ==
                    /\ Minus(score, Score(WithoutRegexes(provider, i))) =
                          IF MatchingRegexes(provider, i, t) > 0 THEN Rat(8, 10) ELSE Zero
                    /\ Minus(score, Score(WithoutPhrases(provider, i))) =
                          IF FoundPhrases(provider, i, t) > 0 THEN Rat(6, 10) ELSE Zero
                    /\ RatLeq(score, Rat(21, 10))
            IN  Holds(Score(provider), normalizeText(text))

\* a call has returned an intent two of whose regexes match the text and two
\* of whose phrases are substrings of it
C25_Witness ==
    /\ called
    /\ result.Task \in DOMAIN provider.config.Intents
    /\ MatchingRegexes(provider, result.Task, normalizeText(text)) > 1
    /\ FoundPhrases(provider, result.Task, normalizeText(text)) > 1

\* whether keyword k of an intent is a substring of a text, and whether one of
\* the synonyms configured for it is
KeywordFound(p, i, k, t) ==
    Contains(ToLower(t), ToLower(p.config.Intents[i].Keywords[k]))

SynonymFound(p, i, k, t) ==
    /\ p.config.Intents[i].Keywords[k] \in DOMAIN p.config.Synonyms
    /\ \E s \in Range(p.config.Synonyms[p.config.Intents[i].Keywords[k]]) :
          Contains(ToLower(t), ToLower(s))

\* C26: in the score of every intent the keywords account for (0.4 for each
\* keyword found in the text + 0.3 for each other keyword one of whose
\* synonyms is found) divided by the number of keywords; this lies between 0
\* and 0.4 and is 0 for an intent without keywords
C26_KeywordContribution ==
    called =>
        \A i \in DOMAIN provider.config.Intents :
            LET Score(p) == calculateIntentScore(p, normalizeText(text), i,
                                                 provider.config.Intents[i])
                n == Len(provider.config.Intents[i].Keywords)
                Expected(t) ==
                    IF n = 0 THEN Zero
                    ELSE Rat(4 * Cardinality({k \in 1..n : KeywordFound(provider, i, k, t)})
                             + 3 * Cardinality({k \in 1..n :
                                                   /\ ~KeywordFound(provider, i, k, t)
                                                   /\ SynonymFound(provider, i, k, t)}),
                             10 * n)
                Holds(contribution) ==
                    /\ contribution = Expected(normalizeText(text))
                    /\ RatLeq(Zero, contribution)
                    /\ RatLeq(contribution, Rat(4, 10))
            IN  Holds(Minus(Score(provider), Score(WithoutKeywords(provider, i))))

\* a call has returned an intent of which one keyword is found in the text
\* together with one of its synonyms, and another keyword is not found
C26_Witness ==
    /\ called
    /\ result.Task \in DOMAIN provider.config.Intents
    /\ \E k \in 1..Len(provider.config.Intents[result.Task].Keywords) :
          /\ KeywordFound(provider, result.Task, k, normalizeText(text))
          /\ SynonymFound(provider, result.Task, k, normalizeText(text))
    /\ \E k \in 1..Len(provider.config.Intents[result.Task].Keywords) :
          /\ ~KeywordFound(provider, result.Task, k, normalizeText(text))
          /\ ~SynonymFound(provider, result.Task, k, normalizeText(text))

\* what the length of the text adds to the score of an intent: the score less
\* the regex, phrase, keyword and word overlap signals
LengthBonus(p, t, i) ==
    LET Score(q) == calculateIntentScore(q, t, i, p.config.Intents[i])
        Rest(score) ==
            RatAdd(RatAdd(Minus(score, Score(WithoutRegexes(p, i))),
                          Minus(score, Score(WithoutPhrases(p, i)))),
                   RatAdd(Minus(score, Score(WithoutKeywords(p, i))),
                          RatMul(calculateWordOverlap(tokenize(t),
                                                      getIntentWords(p.config.Intents[i])),
                                 Rat(2, 10))))
        Bonus(score) == Minus(score, Rest(score))
    IN  Bonus(Score(p))

\* C27: the score of every intent includes the length bonus of 0.1 iff the
\* text given to ExtractIntent is longer than 20 characters
C27_LengthBonusOnRawText ==
    called =>
        \A i \in DOMAIN provider.config.Intents :
            LengthBonus(provider, normalizeText(text), i) =
                IF Len(text) > 20 THEN Rat(1, 10) ELSE Zero

PromptFor(p, i, field) ==
    LET templates == p.config.Intents[i].FollowUp
        Names(k) == Contains(ToLower(templates[k]), ToLower(field))
    IN  IF \E k \in 1..Len(templates) : Names(k)
        THEN templates[CHOOSE k \in 1..Len(templates) :
                          Names(k) /\ \A j \in 1..(k - 1) : ~Names(j)]
        ELSE generateFollowUpQuestion(i, field, <<>>)

\* C29 as stated: a call that returns a configured intent gives one follow-up
\* prompt for every missing field, in the order of Missing, each the prompt
\* for its field
C29_OnePromptPerMissingField ==
    called /\ result.Task \in DOMAIN provider.config.Intents =>
        /\ Len(result.FollowUp) = Len(result.Missing)
        /\ \A k \in 1..Len(result.FollowUp) :
              result.FollowUp[k] = PromptFor(provider, result.Task, result.Missing[k])

\* C29 amended: FollowUp holds the prompts for the fields of Missing, in the
\* order of Missing, without those that are the empty string; there is one
\* prompt for every missing field whenever the intent has no empty follow-up
\* template
C29_NonEmptyPromptsForMissing ==
    called /\ result.Task \in DOMAIN provider.config.Intents =>
        LET NotEmpty(q) == q # ""
            Prompts ==
                [k \in 1..Len(result.Missing) |->
                    PromptFor(provider, result.Task, result.Missing[k])]
        IN  /\ result.FollowUp = SelectSeq(Prompts, NotEmpty)
            /\ "" \notin Range(provider.config.Intents[result.Task].FollowUp) =>
                  result.FollowUp = Prompts

\* a call has returned an intent with a missing field that two custom
\* templates name, answered by the first of them, and a missing field that
\* none names, answered by the built-in default
C29_Witness ==
    /\ called
    /\ result.Task \in DOMAIN provider.config.Intents
    /\ Len(result.FollowUp) = Len(result.Missing)
    /\ \E k \in 1..Len(result.Missing) :
          /\ Cardinality({j \in 1..Len(provider.config.Intents[result.Task].FollowUp) :
                Contains(ToLower(provider.config.Intents[result.Task].FollowUp[j]),
                         ToLower(result.Missing[k]))}) > 1
          /\ result.FollowUp[k] \in Range(provider.config.Intents[result.Task].FollowUp)
    /\ \E k \in 1..Len(result.Missing) :
          result.FollowUp[k] \notin Range(provider.config.Intents[result.Task].FollowUp)

====
